---- MODULE Spec2Model ----
(***************************************************************************)
(* MorphingWorkflow of pyfwg (src/pyfwg_v10.py): map_categories,           *)
(* preview_rename_plan and execute_morphing, with the external morphing    *)
(* engine and the file system as the environment.                          *)
(*                                                                         *)
(* Strings are sequences of symbols.  A symbol stands for one or more      *)
(* characters that the model never splits ("sevilla", "2050"); the         *)
(* characters the code inspects ("/", ".", "_", "{", "}") are symbols of   *)
(* their own, so basename, splitext, endswith, replace, re.findall and     *)
(* str.format are computed on the sequences as Python computes them on     *)
(* the characters.                                                         *)
(***************************************************************************)
EXTENDS Integers, Sequences, FiniteSets, TLC

VARIABLES epw_categories, incomplete_epw_categories, rename_plan, inputs,
          raised, plan_errors, unmatched, last_call, map_args,
          pc, todo, cur, run, outcome, temp_fs, out_fs, log, nruns, ncalls,
          exec_args, command,
          lcz_call,
          iter_args, prepared_workflows, iter_pc, iter_todo, iter_log, iter_raised

\* the LCZ check of utils.py and the MorphingIterator of iterator_v06.py
iterator_vars == <<iter_args, prepared_workflows, iter_pc, iter_todo, iter_log, iter_raised>>

utility_vars == <<lcz_call, iterator_vars>>

vars == <<epw_categories, incomplete_epw_categories, rename_plan, inputs,
          raised, plan_errors, unmatched, last_call, map_args,
          pc, todo, cur, run, outcome, temp_fs, out_fs, log, nruns, ncalls,
          exec_args, command, utility_vars>>

(***************************************************************************)
(* Bounds of the model.                                                    *)
(***************************************************************************)
MaxFiles == 2
MaxRuns == 2
MaxCalls == 4

(***************************************************************************)
(* Program constants.                                                      *)
(***************************************************************************)
ALL_POSSIBLE_SCENARIOS == <<"ssp126", "ssp245", "ssp370", "ssp585">>
ALL_POSSIBLE_YEARS == <<2050, 2080>>
DEFAULT_GCMS ==
    <<"BCC_CSM2_MR", "CanESM5", "CanESM5_1", "CanESM5_CanOE", "CAS_ESM2_0",
      "CMCC_ESM2", "CNRM_CM6_1", "CNRM_CM6_1_HR", "CNRM_ESM2_1", "EC_Earth3",
      "EC_Earth3_Veg", "EC_Earth3_Veg_LR", "FGOALS_g3", "GFDL_ESM4",
      "GISS_E2_1_G", "GISS_E2_1_H", "GISS_E2_2_G", "IPSL_CM6A_LR",
      "MIROC_ES2H", "MIROC_ES2L", "MIROC6", "MRI_ESM2_0", "UKESM1_0_LL">>
auto_placeholders == {"scenario", "ssp_full_name", "year"}

\* Python None as a category value; an absent (None or empty) pattern or
\* keyword mapping is the empty sequence, the code only tests their truth.
None == <<"None">>
NoPattern == <<>>
NoMapping == <<>>
NoMatch == [matched |-> FALSE, groups |-> <<>>]

(***************************************************************************)
(* Python str and os.path on sequences of symbols.                         *)
(***************************************************************************)
Range(s) == {s[i] : i \in DOMAIN s}

str_year(y) == IF y = 2050 THEN "2050" ELSE IF y = 2080 THEN "2080" ELSE "0"

lower_sym(c) ==
    CASE c = "Sevilla" -> "sevilla"
      [] c = "SEVILLA" -> "sevilla"
      [] c = "Madrid" -> "madrid"
      [] c = "T1" -> "t1"
      [] c = "True" -> "true"
      [] c = "False" -> "false"
      [] OTHER -> c

lower(s) == [i \in DOMAIN s |-> lower_sym(s[i])]

LastIndex(s, c) ==
    IF \E i \in DOMAIN s : s[i] = c
    THEN CHOOSE i \in DOMAIN s : s[i] = c /\ \A j \in DOMAIN s : s[j] = c => j <= i
    ELSE 0

FirstIndex(s, c) ==
    IF \E i \in DOMAIN s : s[i] = c
    THEN CHOOSE i \in DOMAIN s : s[i] = c /\ \A j \in DOMAIN s : s[j] = c => j >= i
    ELSE 0

basename(p) == SubSeq(p, LastIndex(p, "/") + 1, Len(p))

dirname_sep(p) == SubSeq(p, 1, LastIndex(p, "/"))

\* os.path.splitext(p)[0]: the extension starts at the last dot of the last
\* component, unless only dots precede it in that component.
splitext_root(p) ==
    LET b == basename(p)
        d == LastIndex(b, ".")
    IN  IF d = 0 \/ \A i \in 1..d : b[i] = "."
        THEN p
        ELSE dirname_sep(p) \o SubSeq(b, 1, d - 1)

path_join(a, b) ==
    IF b # <<>> /\ b[1] = "/" THEN b
    ELSE IF a = <<>> \/ a[Len(a)] = "/" THEN a \o b
    ELSE a \o <<"/">> \o b

endswith(s, suf) ==
    /\ Len(suf) <= Len(s)
    /\ SubSeq(s, Len(s) - Len(suf) + 1, Len(s)) = suf

startswith_at(s, i, sub) ==
    /\ i + Len(sub) - 1 <= Len(s)
    /\ SubSeq(s, i, i + Len(sub) - 1) = sub

\* sub in s
contains(s, sub) == \E i \in 1..(Len(s) + 1) : startswith_at(s, i, sub)

RECURSIVE replace_from(_, _, _, _)
replace_from(s, i, old, new) ==
    IF i > Len(s) THEN <<>>
    ELSE IF startswith_at(s, i, old)
         THEN new \o replace_from(s, i + Len(old), old, new)
         ELSE <<s[i]>> \o replace_from(s, i + 1, old, new)

\* s.replace(old, new), old not empty
replace(s, old, new) == replace_from(s, 1, old, new)

RECURSIVE flat(_)
flat(s) == IF s = <<>> THEN "" ELSE s[1] \o flat(Tail(s))

\* the concatenation of a sequence of sequences
RECURSIVE Concat(_)
Concat(parts) == IF parts = <<>> THEN <<>> ELSE parts[1] \o Concat(Tail(parts))

(***************************************************************************)
(* Python dict: a sequence of entries in insertion order, keys unique.     *)
(***************************************************************************)
EmptyDict == <<>>

keys(d) == [i \in DOMAIN d |-> d[i].k]

keyset(d) == {d[i].k : i \in DOMAIN d}

has(d, k) == k \in keyset(d)

get(d, k) == d[CHOOSE i \in DOMAIN d : d[i].k = k].v

put(d, k, v) ==
    IF has(d, k)
    THEN [i \in DOMAIN d |-> IF d[i].k = k THEN [k |-> k, v |-> v] ELSE d[i]]
    ELSE Append(d, [k |-> k, v |-> v])

RECURSIVE merge(_, _)
merge(d1, d2) ==
    IF d2 = <<>> THEN d1 ELSE merge(put(d1, d2[1].k, d2[1].v), Tail(d2))

(***************************************************************************)
(* The inputs the model draws from: paths, patterns, keyword rules.        *)
(***************************************************************************)
FileA == <<"a", "/", "sevilla", "_", "t1", ".", "epw">>
FileB == <<"b", "/", "sevilla", "_", "t1", ".", "epw">>
FileC == <<"a", "/", "Madrid", ".", "epw">>
FileO == <<"a", "/", "other", ".", "epw">>
FileG == <<"a", "/", "ghost", "_", "t1", ".", "epw">>
\* a name that ends with the separator, and one with the two parts swapped
FileE == <<"a", "/", "sevilla", "_", ".", "epw">>
FileX == <<"a", "/", "t1", "_", "sevilla", ".", "epw">>

Catalog == <<FileC, FileA, FileB, FileO, FileG>>

\* os.path.exists
ExistingFiles == {FileA, FileB, FileC, FileO, FileE, FileX}

exists(p) == p \in ExistingFiles

\* (?P<city>.*?)_(?P<uhi_type>.*)
PatternBoth == <<[first |-> "city", sep |-> "_", rest |-> "uhi_type", optional |-> FALSE]>>
\* (?P<city>[^_]+)(?:_(?P<uhi_type>.*))?
PatternOpt == <<[first |-> "city", sep |-> "_", rest |-> "uhi_type", optional |-> TRUE]>>

\* sevilla: no named group
PatternLiteral == <<[literal |-> <<"sevilla">>]>>

\* one category, two canonical values that share a keyword up to case
KeywordRulesOverlap ==
    << [k |-> "city",
        v |-> << [k |-> <<"Spain">>, v |-> << <<"madrid">>, <<"SEVILLA">> >>],
                 [k |-> <<"Seville">>, v |-> << <<"sevilla">> >>] >>] >>

KeywordRules ==
    << [k |-> "city",
        v |-> << [k |-> <<"Seville">>, v |-> << <<"sevilla">>, <<"svq">> >>],
                 [k |-> <<"Madrid">>, v |-> << <<"Madrid">> >>] >>],
       [k |-> "uhi_type",
        v |-> << [k |-> <<"UHI-Type1">>, v |-> << <<"T1">> >>] >>] >>

\* the (input_filename_pattern, keyword_mapping) pairs of the calls
Strategies ==
    {NoPattern, PatternBoth, PatternOpt, PatternLiteral}
        \X {NoMapping, KeywordRules, KeywordRulesOverlap}

\* the lists of at most MaxFiles consecutive files of the catalog, both ways
Windows ==
    {SubSeq(Catalog, i, j) : i \in 1..Len(Catalog), j \in 0..Len(Catalog)}

Reverse(l) == [i \in DOMAIN l |-> l[Len(l) + 1 - i]]

\* lists with the two names of the edge cases
EdgeLists == {<<FileE>>, <<FileX>>, <<FileA, FileE>>, <<FileX, FileA>>}

FileLists ==
    {l \in Windows \cup {Reverse(w) : w \in Windows} \cup EdgeLists : Len(l) <= MaxFiles}

(***************************************************************************)
(* re.search(input_filename_pattern, epw_base_name).groupdict() for the    *)
(* patterns: the first group runs up to the first separator, the rest      *)
(* group takes what follows it; an optional group that took no part in the *)
(* match is None; a pattern without named group has an empty groupdict.    *)
(***************************************************************************)
Matched(groups) == [matched |-> TRUE, groups |-> groups]

re_search(pattern, base) ==
    LET p == pattern[1]
        i == FirstIndex(base, p.sep)
        \* [^_]+ starts at the first symbol that is not the separator
        s == IF \E j \in DOMAIN base : base[j] # p.sep
             THEN CHOOSE j \in DOMAIN base :
                      base[j] # p.sep /\ \A n \in 1..(j - 1) : base[n] = p.sep
             ELSE 0
        tail == SubSeq(base, s, Len(base))
        e == FirstIndex(tail, p.sep)
    IN  IF "literal" \in DOMAIN p
        THEN IF contains(base, p.literal) THEN Matched(<<>>) ELSE NoMatch
        ELSE IF ~p.optional
        THEN IF i = 0 THEN NoMatch
             ELSE Matched(<< [k |-> p.first, v |-> SubSeq(base, 1, i - 1)],
                             [k |-> p.rest, v |-> SubSeq(base, i + 1, Len(base))] >>)
        ELSE IF s = 0 THEN NoMatch
             ELSE IF e = 0
                  THEN Matched(<< [k |-> p.first, v |-> tail], [k |-> p.rest, v |-> None] >>)
                  ELSE Matched(<< [k |-> p.first, v |-> SubSeq(tail, 1, e - 1)],
                                  [k |-> p.rest, v |-> SubSeq(tail, e + 1, Len(tail))] >>)

(***************************************************************************)
(* map_categories                                                          *)
(***************************************************************************)
\* raw_value.lower() in [k.lower() for k in keywords]
keyword_equals(raw_value, keywords) ==
    \E j \in DOMAIN keywords : lower(raw_value) = lower(keywords[j])

\* the first entry of keyword_mapping[category] whose keywords hold the raw value
RECURSIVE normalize_value(_, _)
normalize_value(rules, raw_value) ==
    IF rules = <<>> THEN raw_value
    ELSE IF keyword_equals(raw_value, rules[1].v) THEN rules[1].k
    ELSE normalize_value(Tail(rules), raw_value)

\* a variant that looks a raw value up in the tables of all categories
RECURSIVE normalize_groups_any_table(_, _)
normalize_groups_any_table(raw_values, keyword_mapping) ==
    IF raw_values = <<>> THEN EmptyDict
    ELSE LET category == raw_values[1].k
             raw_value == raw_values[1].v
             rest == normalize_groups_any_table(Tail(raw_values), keyword_mapping)
             tables == IF keyword_mapping = NoMapping THEN <<>>
                       ELSE (IF has(keyword_mapping, category)
                             THEN get(keyword_mapping, category) ELSE <<>>)
                            \o Concat([i \in DOMAIN keyword_mapping |-> keyword_mapping[i].v])
         IN  IF raw_value = None THEN rest
             ELSE <<[k |-> category, v |-> normalize_value(tables, raw_value)]>> \o rest

\* a variant that keeps the groups that took no part in the match
RECURSIVE normalize_groups_all(_, _)
normalize_groups_all(raw_values, keyword_mapping) ==
    IF raw_values = <<>> THEN EmptyDict
    ELSE LET category == raw_values[1].k
             raw_value == raw_values[1].v
             rest == normalize_groups_all(Tail(raw_values), keyword_mapping)
             final_value ==
                 IF keyword_mapping # NoMapping /\ has(keyword_mapping, category)
                 THEN normalize_value(get(keyword_mapping, category), raw_value)
                 ELSE raw_value
         IN  <<[k |-> category, v |-> final_value]>> \o rest

RECURSIVE normalize_groups(_, _)
normalize_groups(raw_values, keyword_mapping) ==
    IF raw_values = <<>> THEN EmptyDict
    ELSE LET category == raw_values[1].k
             raw_value == raw_values[1].v
             rest == normalize_groups(Tail(raw_values), keyword_mapping)
         IN  IF raw_value = None THEN rest
             ELSE LET final_value ==
                          IF keyword_mapping # NoMapping /\ has(keyword_mapping, category)
                          THEN normalize_value(get(keyword_mapping, category), raw_value)
                          ELSE raw_value
                  IN  <<[k |-> category, v |-> final_value]>> \o rest

\* a variant that compares the keyword with the whole name
keyword_hit_whole_name(epw_name_lower, keywords) ==
    \E j \in DOMAIN keywords : epw_name_lower = lower(keywords[j])

\* any(keyword.lower() in epw_name_lower for keyword in keywords)
keyword_hit(epw_name_lower, keywords) ==
    \E j \in DOMAIN keywords : contains(epw_name_lower, lower(keywords[j]))

\* a variant without the break: the last value with a hit is kept
RECURSIVE last_hit(_, _)
last_hit(rules, epw_name_lower) ==
    IF rules = <<>> THEN None
    ELSE LET later == last_hit(Tail(rules), epw_name_lower)
         IN  IF later # None THEN later
             ELSE IF keyword_hit(epw_name_lower, rules[1].v) THEN rules[1].k
             ELSE None

RECURSIVE first_hit(_, _)
first_hit(rules, epw_name_lower) ==
    IF rules = <<>> THEN None
    ELSE IF keyword_hit(epw_name_lower, rules[1].v) THEN rules[1].k
    ELSE first_hit(Tail(rules), epw_name_lower)

RECURSIVE keyword_search(_, _)
keyword_search(keyword_mapping, epw_name_lower) ==
    IF keyword_mapping = <<>> THEN EmptyDict
    ELSE LET category == keyword_mapping[1].k
             final_value == first_hit(keyword_mapping[1].v, epw_name_lower)
             rest == keyword_search(Tail(keyword_mapping), epw_name_lower)
         IN  IF final_value = None THEN rest
             ELSE <<[k |-> category, v |-> final_value]>> \o rest

\* a variant that searches the keywords whenever a mapping is given
file_categories_keyword_first(epw_path, input_filename_pattern, keyword_mapping) ==
    IF keyword_mapping = NoMapping
    THEN LET match == re_search(input_filename_pattern, splitext_root(basename(epw_path)))
         IN  IF ~match.matched THEN NoMatch
             ELSE Matched(normalize_groups(match.groups, keyword_mapping))
    ELSE Matched(keyword_search(keyword_mapping, lower(basename(epw_path))))

\* the match and the categories of one file
file_categories(epw_path, input_filename_pattern, keyword_mapping) ==
    IF input_filename_pattern # NoPattern
    THEN LET match == re_search(input_filename_pattern, splitext_root(basename(epw_path)))
         IN  IF ~match.matched THEN NoMatch
             ELSE Matched(normalize_groups(match.groups, keyword_mapping))
    ELSE Matched(keyword_search(keyword_mapping, lower(basename(epw_path))))

\* a variant of the loop without the completeness check
RECURSIVE map_loop_all_complete(_, _, _, _)
map_loop_all_complete(epw_files, input_filename_pattern, keyword_mapping, st) ==
    IF epw_files = <<>> THEN st
    ELSE LET epw_path == epw_files[1]
             found == file_categories(epw_path, input_filename_pattern, keyword_mapping)
             cats == found.groups
             skip == [st EXCEPT !.skipped = @ \cup {epw_path}]
             next ==
                 IF ~exists(epw_path) THEN skip
                 ELSE IF ~found.matched \/ cats = EmptyDict THEN skip
                 ELSE [st EXCEPT !.complete = put(@, epw_path, cats)]
         IN  map_loop_all_complete(Tail(epw_files), input_filename_pattern,
                                   keyword_mapping, next)

\* the loop over epw_files; st = [complete, incomplete, skipped]
RECURSIVE map_loop(_, _, _, _)
map_loop(epw_files, input_filename_pattern, keyword_mapping, st) ==
    IF epw_files = <<>> THEN st
    ELSE LET epw_path == epw_files[1]
             found == file_categories(epw_path, input_filename_pattern, keyword_mapping)
             cats == found.groups
             skip == [st EXCEPT !.skipped = @ \cup {epw_path}]
             next ==
                 IF ~exists(epw_path) THEN skip
                 ELSE IF ~found.matched \/ cats = EmptyDict THEN skip
                 ELSE IF keyword_mapping # NoMapping /\ input_filename_pattern = NoPattern
                      THEN IF Cardinality(keyset(cats)) < Cardinality(keyset(keyword_mapping))
                           THEN [st EXCEPT !.incomplete = put(@, epw_path, cats)]
                           ELSE [st EXCEPT !.complete = put(@, epw_path, cats)]
                      ELSE [st EXCEPT !.complete = put(@, epw_path, cats)]
         IN  map_loop(Tail(epw_files), input_filename_pattern, keyword_mapping, next)

Idle == pc = "idle"

ExecVarsUnchanged ==
    UNCHANGED <<pc, todo, cur, run, outcome, temp_fs, out_fs, log, nruns,
                exec_args, command, utility_vars>>

\* a variant without the reset of line 58
map_categories_accumulating(epw_files, input_filename_pattern, keyword_mapping) ==
    /\ Idle
    /\ IF input_filename_pattern = NoPattern /\ keyword_mapping = NoMapping
       THEN /\ raised' = "ValueError"
            /\ UNCHANGED <<epw_categories, incomplete_epw_categories, inputs, unmatched>>
       ELSE LET st == map_loop(epw_files, input_filename_pattern, keyword_mapping,
                               [complete |-> epw_categories,
                                incomplete |-> incomplete_epw_categories,
                                skipped |-> {}])
            IN  /\ raised' = "none"
                /\ inputs' = [inputs EXCEPT !.epw_files = epw_files]
                /\ epw_categories' = st.complete
                /\ incomplete_epw_categories' = st.incomplete
                /\ unmatched' = st.skipped
    /\ last_call' = "map_categories"
    /\ map_args' = [input_filename_pattern |-> input_filename_pattern,
                    keyword_mapping |-> keyword_mapping]
    /\ UNCHANGED <<rename_plan, plan_errors>>
    /\ ExecVarsUnchanged

map_categories(epw_files, input_filename_pattern, keyword_mapping) ==
    /\ Idle
    /\ IF input_filename_pattern = NoPattern /\ keyword_mapping = NoMapping
       THEN /\ raised' = "ValueError"
            /\ UNCHANGED <<epw_categories, incomplete_epw_categories, inputs, unmatched>>
       ELSE LET st == map_loop(epw_files, input_filename_pattern, keyword_mapping,
                               [complete |-> EmptyDict, incomplete |-> EmptyDict,
                                skipped |-> {}])
            IN  /\ raised' = "none"
                /\ inputs' = [inputs EXCEPT !.epw_files = epw_files]
                /\ epw_categories' = st.complete
                /\ incomplete_epw_categories' = st.incomplete
                /\ unmatched' = st.skipped
    /\ last_call' = "map_categories"
    /\ map_args' = [input_filename_pattern |-> input_filename_pattern,
                    keyword_mapping |-> keyword_mapping]
    /\ UNCHANGED <<rename_plan, plan_errors>>
    /\ ExecVarsUnchanged

(***************************************************************************)
(* Templates, scenario labels and output directories the model draws from. *)
(***************************************************************************)
\* {city}_{year}
TemplateCityYear == <<"{", "city", "}", "_", "{", "year", "}">>
\* {city}_{uhi}_{year}
TemplateCityUhiYear == <<"{", "city", "}", "_", "{", "uhi", "}", "_", "{", "year", "}">>
\* {city}_{ssp_full_name}_{year}_{uhi_type}
TemplateFull == <<"{", "city", "}", "_", "{", "ssp_full_name", "}", "_",
                  "{", "year", "}", "_", "{", "uhi_type", "}">>

\* {city}_{scenario}_{year}
TemplateScenario == <<"{", "city", "}", "_", "{", "scenario", "}", "_", "{", "year", "}">>

Templates == {TemplateCityYear, TemplateCityUhiYear, TemplateFull, TemplateScenario}

ScenarioLabels == << [k |-> "ssp245", v |-> <<"SSP2-4.5">>] >>

ScenarioMappings == {NoMapping, ScenarioLabels}

FinalOutputDirs == {<<"out">>}

(***************************************************************************)
(* re.findall over output_filename_pattern with the lazy brace pattern of  *)
(* line 129: the text from each opening brace to the next closing brace,   *)
(* scanning left to right.                                                 *)
(***************************************************************************)
RECURSIVE findall_braces(_)
findall_braces(t) ==
    LET i == FirstIndex(t, "{")
        after == SubSeq(t, i + 1, Len(t))
        j == FirstIndex(after, "}")
    IN  IF i = 0 \/ j = 0 THEN {}
        ELSE {flat(SubSeq(after, 1, j - 1))} \cup findall_braces(SubSeq(after, j + 1, Len(after)))

\* a variant that asks the mapping for the automatic placeholders too
required_with_auto(output_filename_pattern) ==
    findall_braces(output_filename_pattern)

required_from_mapping(output_filename_pattern) ==
    findall_braces(output_filename_pattern) \ auto_placeholders

missing_keys(output_filename_pattern, mapped_data) ==
    required_from_mapping(output_filename_pattern) \ keyset(mapped_data)

(***************************************************************************)
(* output_filename_pattern.format over filename_data: doubled braces are  *)
(* literal braces, {name} is the value of name; a name that is not a key   *)
(* is a KeyError, an empty name an IndexError, a single brace a ValueError.*)
(***************************************************************************)
Rendered(text) == [err |-> "none", text |-> text]
FormatError(e) == [err |-> e, text |-> <<>>]

RECURSIVE format(_, _)
format(t, filename_data) ==
    IF t = <<>> THEN Rendered(<<>>)
    ELSE LET rest == Tail(t)
             j == FirstIndex(rest, "}")
             name == flat(SubSeq(rest, 1, j - 1))
             lit(n) == LET r == format(SubSeq(t, n + 1, Len(t)), filename_data)
                       IN  IF r.err # "none" THEN r ELSE Rendered(<<t[1]>> \o r.text)
         IN  IF t[1] = "{"
             THEN IF rest # <<>> /\ rest[1] = "{" THEN lit(2)
                  ELSE IF j = 0 THEN FormatError("ValueError")
                  ELSE IF name = "" THEN FormatError("IndexError")
                  ELSE IF ~has(filename_data, name) THEN FormatError("KeyError")
                  ELSE LET r == format(SubSeq(rest, j + 1, Len(rest)), filename_data)
                       IN  IF r.err # "none" THEN r
                           ELSE Rendered(get(filename_data, name) \o r.text)
             ELSE IF t[1] = "}"
             THEN IF rest # <<>> /\ rest[1] = "}" THEN lit(2)
                  ELSE FormatError("ValueError")
             ELSE lit(1)

(***************************************************************************)
(* preview_rename_plan                                                     *)
(***************************************************************************)
\* a variant that ignores the scenario mapping
ssp_full_name_raw(scenario_mapping, scenario) == <<scenario>>

\* self.inputs['scenario_mapping'].get(scenario, scenario)
ssp_full_name(scenario_mapping, scenario) ==
    IF has(scenario_mapping, scenario) THEN get(scenario_mapping, scenario)
    ELSE <<scenario>>

filename_data(mapped_data, scenario_mapping, scenario, year) ==
    put(put(put(mapped_data, "scenario", <<scenario>>),
            "ssp_full_name", ssp_full_name(scenario_mapping, scenario)),
        "year", <<str_year(year)>>)

\* f"{scenario}_{year}.epw"
generated_file_key(scenario, year) == <<scenario, "_", str_year(year), ".", "epw">>

final_epw_path(final_output_dir, new_base_name) ==
    path_join(final_output_dir, new_base_name \o <<".", "epw">>)

\* the (year, scenario) pairs in the order of the two nested loops
ScenarioYearPairs ==
    LET ns == Len(ALL_POSSIBLE_SCENARIOS)
    IN  [n \in 1..(Len(ALL_POSSIBLE_YEARS) * ns) |->
            [year |-> ALL_POSSIBLE_YEARS[((n - 1) \div ns) + 1],
             scenario |-> ALL_POSSIBLE_SCENARIOS[((n - 1) % ns) + 1]]]

\* the inner plan of one file; r = [err, plan]
RECURSIVE plan_for_file(_, _, _, _, _, _)
plan_for_file(pairs, mapped_data, final_output_dir, output_filename_pattern, scenario_mapping, plan) ==
    IF pairs = <<>> THEN [err |-> "none", plan |-> plan]
    ELSE LET scenario == pairs[1].scenario
             year == pairs[1].year
             new_base_name == format(output_filename_pattern,
                                     filename_data(mapped_data, scenario_mapping,
                                                   scenario, year))
         IN  IF new_base_name.err # "none"
             THEN [err |-> new_base_name.err, plan |-> plan]
             ELSE plan_for_file(Tail(pairs), mapped_data, final_output_dir,
                                output_filename_pattern, scenario_mapping,
                                put(plan, generated_file_key(scenario, year),
                                    final_epw_path(final_output_dir, new_base_name.text)))

\* a variant in which a destination belongs to the last file that rendered it
add_file_plan_by_destination(plan, epw_path, inner_plan) ==
    LET taken == {inner_plan[j].v : j \in DOMAIN inner_plan}
        stripped == [i \in DOMAIN plan |->
                        [k |-> plan[i].k,
                         v |-> SelectSeq(plan[i].v, LAMBDA e : e.v \notin taken)]]
    IN  put(stripped, epw_path, inner_plan)

\* lines 127 and 146: self.rename_plan[epw_path][key] = value, for every key
add_file_plan(plan, epw_path, inner_plan) == put(plan, epw_path, inner_plan)

\* a variant of the loop that opens the entry of a file before validating it
RECURSIVE preview_loop_entry_first(_, _, _, _, _)
preview_loop_entry_first(all_mapped_files, final_output_dir, output_filename_pattern, scenario_mapping, st) ==
    IF all_mapped_files = <<>> \/ st.err # "none" THEN st
    ELSE LET epw_path == all_mapped_files[1].k
             mapped_data == all_mapped_files[1].v
             missing == missing_keys(output_filename_pattern, mapped_data)
             inner == plan_for_file(ScenarioYearPairs, mapped_data, final_output_dir,
                                    output_filename_pattern, scenario_mapping, EmptyDict)
             next ==
                 IF missing # {}
                 THEN [st EXCEPT !.plan = add_file_plan(@, epw_path, EmptyDict),
                                 !.errors = @ \cup {[file |-> epw_path, missing |-> missing]}]
                 ELSE [st EXCEPT !.plan = add_file_plan(@, epw_path, inner.plan),
                                 !.err = inner.err]
         IN  preview_loop_entry_first(Tail(all_mapped_files), final_output_dir,
                                      output_filename_pattern, scenario_mapping, next)

\* the loop over all_mapped_files; st = [err, plan, errors]
RECURSIVE preview_loop(_, _, _, _, _)
preview_loop(all_mapped_files, final_output_dir, output_filename_pattern, scenario_mapping, st) ==
    IF all_mapped_files = <<>> \/ st.err # "none" THEN st
    ELSE LET epw_path == all_mapped_files[1].k
             mapped_data == all_mapped_files[1].v
             missing == missing_keys(output_filename_pattern, mapped_data)
             inner == plan_for_file(ScenarioYearPairs, mapped_data, final_output_dir,
                                    output_filename_pattern, scenario_mapping, EmptyDict)
             next ==
                 IF missing # {}
                 THEN [st EXCEPT !.errors = @ \cup {[file |-> epw_path, missing |-> missing]}]
                 ELSE [st EXCEPT !.plan = add_file_plan(@, epw_path, inner.plan),
                                 !.err = inner.err]
         IN  preview_loop(Tail(all_mapped_files), final_output_dir,
                          output_filename_pattern, scenario_mapping, next)

\* every destination of the plan, with the entry it belongs to
PlanEntries(plan) ==
    UNION {{[file |-> plan[i].k, key |-> plan[i].v[j].k, dest |-> plan[i].v[j].v] :
               j \in DOMAIN (plan[i].v)} : i \in DOMAIN plan}

\* Strict mode: the pre-scan of all rendered destinations; a duplicate is a
\* configuration error and no plan is kept.
has_collision(plan) ==
    \E e1, e2 \in PlanEntries(plan) : e1 # e2 /\ e1.dest = e2.dest

\* a variant that keeps the plan whatever the mode
checked_plan_lenient(raise_on_overwrite, plan) == [err |-> "none", plan |-> plan]

checked_plan(raise_on_overwrite, plan) ==
    IF raise_on_overwrite /\ has_collision(plan)
    THEN [err |-> "ConfigurationError", plan |-> EmptyDict]
    ELSE [err |-> "none", plan |-> plan]

preview_rename_plan(final_output_dir, output_filename_pattern, scenario_mapping, raise_on_overwrite) ==
    /\ Idle
    /\ IF epw_categories = EmptyDict /\ incomplete_epw_categories = EmptyDict
       THEN /\ raised' = "RuntimeError"
            /\ UNCHANGED <<rename_plan, inputs, plan_errors>>
       ELSE LET all_mapped_files == merge(epw_categories, incomplete_epw_categories)
                st == preview_loop(all_mapped_files, final_output_dir,
                                   output_filename_pattern, scenario_mapping,
                                   [err |-> "none", plan |-> EmptyDict, errors |-> {}])
                checked == checked_plan(raise_on_overwrite, st.plan)
            IN  /\ inputs' = [inputs EXCEPT !.final_output_dir = final_output_dir,
                                            !.output_filename_pattern = output_filename_pattern,
                                            !.scenario_mapping = scenario_mapping,
                                            !.raise_on_overwrite = raise_on_overwrite]
                /\ plan_errors' = st.errors
                /\ IF st.err # "none"
                   THEN raised' = st.err /\ rename_plan' = st.plan
                   ELSE raised' = checked.err /\ rename_plan' = checked.plan
    /\ last_call' = "preview_rename_plan"
    /\ UNCHANGED <<map_args, epw_categories, incomplete_epw_categories, unmatched>>
    /\ ExecVarsUnchanged

(***************************************************************************)
(* The environment of execute_morphing: what one engine run writes into    *)
(* its output directory and how it ends.                                   *)
(***************************************************************************)
TempBaseDir == <<"tmp">>

Gen126Epw == <<"ssp126", "_", "2050", ".", "epw">>
Gen126Stat == <<"ssp126", "_", "2050", ".", "stat">>
Gen245Epw == <<"ssp245", "_", "2050", ".", "epw">>
Gen119Stat == <<"ssp119", "_", "2050", ".", "stat">>
GenLog == <<"fwg", ".", "log">>

WritesAll == {Gen126Epw, Gen126Stat, Gen245Epw, Gen119Stat, GenLog}
WritesPart == {Gen126Epw}

\* how a run ends and what it has written by then
EngineResults ==
    {[result |-> "ok", written |-> WritesAll],
     [result |-> "ok", written |-> WritesPart],
     [result |-> "nonzero", written |-> {}],
     [result |-> "nonzero", written |-> WritesPart],
     [result |-> "timeout", written |-> WritesPart]}

Event(ev, file, r) == [ev |-> ev, file |-> file, run |-> r]

(***************************************************************************)
(* The engine parameters.  A value is written as Python's str() prints it: *)
(* <<"True">>, <<"72">>, <<"0.0">>, None; a list of names is the sequence  *)
(* of the names.                                                           *)
(***************************************************************************)
FwgJarPath == <<"fwg", ".", "jar">>
Cwd == <<"/", "cwd", "/">>
sep == <<"/">>

\* os.path.abspath of a relative path
abspath(path) == Cwd \o path

\* bool(value)
truthy(value) == value \notin {None, <<>>, <<"False">>, <<"0">>, <<"0.0">>}

\* ",".join(names)
RECURSIVE join_comma(_)
join_comma(names) ==
    IF names = <<>> THEN <<>>
    ELSE IF Len(names) = 1 THEN <<names[1]>>
    ELSE <<names[1], ",">> \o join_comma(Tail(names))

\* dict.get(key): None when the key is absent
dict_get(d, key) == IF has(d, key) THEN get(d, key) ELSE None

\* the value an explicit keyword argument is bound to: the one the caller
\* passes, or the default of the signature (lines 158-163)
bound(explicit, name, default) == IF has(explicit, name) THEN get(explicit, name) ELSE default

UhiDefault == <<"1", ":", "14", ":", "1">>

\* fwg_params=None, which line 167 treats as the empty dictionary
NoParams == <<>>

\* lines 168-171
overrides(explicit) ==
    << [k |-> "gcms", v |-> bound(explicit, "fwg_gcms", None)],
       [k |-> "create_ensemble", v |-> bound(explicit, "fwg_create_ensemble", <<"True">>)],
       [k |-> "winter_sd_shift", v |-> bound(explicit, "fwg_winter_sd_shift", <<"0.0">>)],
       [k |-> "summer_sd_shift", v |-> bound(explicit, "fwg_summer_sd_shift", <<"0.0">>)],
       [k |-> "month_transition_hours",
        v |-> bound(explicit, "fwg_month_transition_hours", <<"72">>)],
       [k |-> "use_multithreading", v |-> bound(explicit, "fwg_use_multithreading", <<"True">>)],
       [k |-> "interpolation_method_id",
        v |-> bound(explicit, "fwg_interpolation_method_id", <<"0">>)],
       [k |-> "limit_variables", v |-> bound(explicit, "fwg_limit_variables", <<"True">>)],
       [k |-> "solar_hour_adjustment",
        v |-> bound(explicit, "fwg_solar_hour_adjustment", <<"1">>)],
       [k |-> "diffuse_irradiation_model",
        v |-> bound(explicit, "fwg_diffuse_irradiation_model", <<"1">>)],
       [k |-> "uhi_options", v |-> bound(explicit, "fwg_uhi_options", UhiDefault)] >>

\* lines 167 and 172: a copy of fwg_params, updated with the overrides
final_fwg_params(fwg_params, explicit) ==
    merge(IF fwg_params # NoParams THEN fwg_params ELSE EmptyDict, overrides(explicit))

\* a variant that leaves the last argument out when the caller passed no
\* fwg_uhi_options
engine_command_optional_uhi(epw_path, temp_output_dir) ==
    LET params == inputs.fwg_params
        gcms == IF truthy(dict_get(params, "gcms")) THEN dict_get(params, "gcms")
                ELSE DEFAULT_GCMS
    IN  << <<"java">>, <<"-cp">>, inputs.fwg_jar_path, <<"futureweathergenerator.Morph">>,
           abspath(epw_path),
           join_comma(gcms),
           IF truthy(dict_get(params, "create_ensemble")) THEN <<"1">> ELSE <<"0">>,
           dict_get(params, "winter_sd_shift") \o <<":">> \o dict_get(params, "summer_sd_shift"),
           dict_get(params, "month_transition_hours"),
           abspath(temp_output_dir) \o sep,
           lower(dict_get(params, "use_multithreading")),
           dict_get(params, "interpolation_method_id"),
           lower(dict_get(params, "limit_variables")),
           dict_get(params, "solar_hour_adjustment"),
           dict_get(params, "diffuse_irradiation_model") >>
        \o (IF has(exec_args.explicit, "fwg_uhi_options")
            THEN <<dict_get(params, "uhi_options")>> ELSE <<>>)

\* lines 193-197: the argument list of the engine
engine_command(epw_path, temp_output_dir) ==
    LET params == inputs.fwg_params
        gcms == IF truthy(dict_get(params, "gcms")) THEN dict_get(params, "gcms")
                ELSE DEFAULT_GCMS
    IN  << <<"java">>, <<"-cp">>, inputs.fwg_jar_path, <<"futureweathergenerator.Morph">>,
           abspath(epw_path),
           join_comma(gcms),
           IF truthy(dict_get(params, "create_ensemble")) THEN <<"1">> ELSE <<"0">>,
           dict_get(params, "winter_sd_shift") \o <<":">> \o dict_get(params, "summer_sd_shift"),
           dict_get(params, "month_transition_hours"),
           abspath(temp_output_dir) \o sep,
           lower(dict_get(params, "use_multithreading")),
           dict_get(params, "interpolation_method_id"),
           lower(dict_get(params, "limit_variables")),
           dict_get(params, "solar_hour_adjustment"),
           dict_get(params, "diffuse_irradiation_model"),
           dict_get(params, "uhi_options") >>

(***************************************************************************)
(* execute_morphing, one step of its loop at a time                        *)
(***************************************************************************)
\* a variant that lists the incomplete files whatever the caller asks
files_to_process_all(run_incomplete_files) ==
    keys(epw_categories) \o keys(incomplete_epw_categories)

\* a variant that lists the complete files twice
files_to_process_twice(run_incomplete_files) ==
    keys(epw_categories) \o keys(epw_categories) \o
    (IF run_incomplete_files THEN keys(incomplete_epw_categories) ELSE <<>>)

files_to_process(run_incomplete_files) ==
    keys(epw_categories) \o
    (IF run_incomplete_files THEN keys(incomplete_epw_categories) ELSE <<>>)

temp_epw_output_dir(epw_path) ==
    path_join(TempBaseDir, splitext_root(basename(epw_path)))

\* a variant without the guard of line 165
execute_morphing_unguarded(run_incomplete_files, delete_temp_files, fwg_params, explicit) ==
    /\ Idle
    /\ last_call' = "execute_morphing"
    /\ exec_args' = [fwg_params |-> fwg_params, explicit |-> explicit]
    /\ raised' = "none"
    /\ inputs' = [inputs EXCEPT !.run_incomplete_files = run_incomplete_files,
                                !.delete_temp_files = delete_temp_files,
                                !.fwg_jar_path = FwgJarPath,
                                !.fwg_params = final_fwg_params(fwg_params, explicit)]
    /\ todo' = files_to_process(run_incomplete_files)
    /\ pc' = "loop"
    /\ log' = <<>>
    /\ outcome' = "none"
    /\ UNCHANGED <<utility_vars, command>>
    /\ UNCHANGED <<map_args, epw_categories, incomplete_epw_categories, rename_plan,
                   plan_errors, unmatched, cur, run, temp_fs, out_fs, nruns>>

\* lines 165-180: the guard, the inputs and the list of files
execute_morphing(run_incomplete_files, delete_temp_files, fwg_params, explicit) ==
    /\ Idle
    /\ last_call' = "execute_morphing"
    /\ exec_args' = [fwg_params |-> fwg_params, explicit |-> explicit]
    /\ IF rename_plan = EmptyDict
       THEN /\ raised' = "RuntimeError"
            /\ UNCHANGED <<inputs, pc, todo, log, outcome>>
       ELSE /\ raised' = "none"
            /\ inputs' = [inputs EXCEPT !.run_incomplete_files = run_incomplete_files,
                                        !.delete_temp_files = delete_temp_files,
                                        !.fwg_jar_path = FwgJarPath,
                                        !.fwg_params = final_fwg_params(fwg_params, explicit)]
            /\ todo' = files_to_process(run_incomplete_files)
            /\ pc' = "loop"
            /\ log' = <<>>
            /\ outcome' = "none"
    /\ UNCHANGED <<utility_vars, command>>
    /\ UNCHANGED <<map_args, epw_categories, incomplete_epw_categories, rename_plan,
                   plan_errors, unmatched, cur, run, temp_fs, out_fs, nruns>>

\* makedirs(temp_epw_output_dir, exist_ok=True): the directory keeps what it holds
makedirs(fs, d) == IF d \in DOMAIN fs THEN fs ELSE (d :> <<>>) @@ fs

\* a variant of the loop without the check of line 182
loop_next_unchecked ==
    /\ pc = "loop"
    /\ todo # <<>>
    /\ nruns < MaxRuns
    /\ todo' = Tail(todo)
    /\ cur' = Head(todo)
    /\ run' = nruns + 1
    /\ nruns' = nruns + 1
    /\ temp_fs' = makedirs(temp_fs, temp_epw_output_dir(Head(todo)))
    /\ log' = Append(log, Event("invoke", Head(todo), nruns + 1))
    /\ command' = engine_command(Head(todo), temp_epw_output_dir(Head(todo)))
    /\ pc' = "engine"
    /\ outcome' = "none"
    /\ UNCHANGED <<utility_vars, exec_args>>
    /\ UNCHANGED <<map_args, epw_categories, incomplete_epw_categories, rename_plan, inputs,
                   raised, plan_errors, unmatched, last_call, out_fs, ncalls>>

\* line 181-185: the next file; a file without a plan is skipped, otherwise
\* the engine is started on it
loop_next ==
    /\ pc = "loop"
    /\ todo # <<>>
    /\ LET epw_path == Head(todo)
       IN  IF ~has(rename_plan, epw_path)
           THEN /\ todo' = Tail(todo)
                /\ UNCHANGED <<pc, cur, run, temp_fs, log, nruns, command>>
           ELSE /\ nruns < MaxRuns
                /\ todo' = Tail(todo)
                /\ cur' = epw_path
                /\ run' = nruns + 1
                /\ nruns' = nruns + 1
                /\ temp_fs' = makedirs(temp_fs, temp_epw_output_dir(epw_path))
                /\ log' = Append(log, Event("invoke", epw_path, nruns + 1))
                /\ command' = engine_command(epw_path, temp_epw_output_dir(epw_path))
                /\ pc' = "engine"
    /\ outcome' = "none"
    /\ UNCHANGED <<utility_vars, exec_args>>
    /\ UNCHANGED <<map_args, epw_categories, incomplete_epw_categories, rename_plan, inputs,
                   raised, plan_errors, unmatched, last_call, out_fs, ncalls>>

\* line 189: the loop is over, the call returns and its locals are gone
loop_done ==
    /\ pc = "loop"
    /\ todo = <<>>
    /\ pc' = "idle"
    /\ cur' = <<>>
    /\ run' = 0
    /\ outcome' = "none"
    /\ log' = <<>>
    /\ UNCHANGED <<utility_vars, exec_args, command>>
    /\ UNCHANGED <<map_args, epw_categories, incomplete_epw_categories, rename_plan, inputs,
                   raised, plan_errors, unmatched, last_call, todo,
                   temp_fs, out_fs, nruns, ncalls>>

\* the files of a directory after a run wrote the names of written into it
write_files(dir, written, r) ==
    [name \in DOMAIN dir \cup written |-> IF name \in written THEN r ELSE dir[name]]

\* a variant that goes on to the relocation whatever the result
engine_returns_unchecked(result, written) ==
    /\ pc = "engine"
    /\ LET d == temp_epw_output_dir(cur)
       IN  temp_fs' = [temp_fs EXCEPT ![d] = write_files(@, written, run)]
    /\ outcome' = result
    /\ pc' = "relocate"
    /\ UNCHANGED <<raised, log>>
    /\ UNCHANGED <<utility_vars, exec_args, command>>
    /\ UNCHANGED <<map_args, epw_categories, incomplete_epw_categories, rename_plan, inputs,
                   plan_errors, unmatched, last_call, todo, cur, run, out_fs, nruns, ncalls>>

\* _execute_single_morph, lines 199-204: subprocess.run returns, raises
\* CalledProcessError (caught, False) or raises TimeoutExpired (not caught)
engine_returns(result, written) ==
    /\ pc = "engine"
    /\ LET d == temp_epw_output_dir(cur)
       IN  temp_fs' = [temp_fs EXCEPT ![d] = write_files(@, written, run)]
    /\ outcome' = result
    /\ CASE result = "ok" ->
              /\ pc' = "relocate"
              /\ UNCHANGED <<raised, log>>
         [] result = "nonzero" ->
              /\ pc' = "loop"
              /\ log' = Append(log, Event("fail", cur, run))
              /\ UNCHANGED raised
         [] OTHER ->
              /\ pc' = "idle"
              /\ raised' = "TimeoutExpired"
              /\ UNCHANGED log
    /\ UNCHANGED <<utility_vars, exec_args, command>>
    /\ UNCHANGED <<map_args, epw_categories, incomplete_epw_categories, rename_plan, inputs,
                   plan_errors, unmatched, last_call, todo, cur, run, out_fs, nruns, ncalls>>

(***************************************************************************)
(* _process_generated_files                                                *)
(***************************************************************************)
StatExt == <<".", "stat">>
EpwExt == <<".", "epw">>

\* a variant that appends the extension to the planned path
destination_path_appended(plan_for_this_epw, generated_file) ==
    IF has(plan_for_this_epw, generated_file)
    THEN get(plan_for_this_epw, generated_file)
    ELSE IF /\ endswith(generated_file, StatExt)
            /\ has(plan_for_this_epw, replace(generated_file, StatExt, EpwExt))
         THEN get(plan_for_this_epw,
                  replace(generated_file, StatExt, EpwExt)) \o StatExt
         ELSE None

\* lines 211-216; None when the file gets no destination
destination_path(plan_for_this_epw, generated_file) ==
    IF has(plan_for_this_epw, generated_file)
    THEN get(plan_for_this_epw, generated_file)
    ELSE IF /\ endswith(generated_file, StatExt)
            /\ has(plan_for_this_epw, replace(generated_file, StatExt, EpwExt))
         THEN splitext_root(get(plan_for_this_epw,
                                replace(generated_file, StatExt, EpwExt))) \o StatExt
         ELSE None

\* self.rename_plan.get(source_epw_path, {})
plan_of(source_epw_path) ==
    IF has(rename_plan, source_epw_path) THEN get(rename_plan, source_epw_path)
    ELSE EmptyDict

\* the generated files of temp_dir that get a destination
relocated(source_epw_path, temp_dir) ==
    {g \in DOMAIN temp_fs[temp_dir] :
        destination_path(plan_of(source_epw_path), g) # None}

\* a variant that takes the entry of the file out of the plan once its
\* outputs are copied
process_generated_files_consuming ==
    /\ pc = "relocate"
    /\ LET d == temp_epw_output_dir(cur)
           plan == plan_of(cur)
           gens == relocated(cur, d)
           dests == {destination_path(plan, g) : g \in gens}
       IN  \E last \in [dests -> gens] :
              /\ \A dest \in dests : destination_path(plan, last[dest]) = dest
              /\ out_fs' = [dest \in DOMAIN out_fs \cup dests |->
                               IF dest \in dests
                               THEN [name |-> last[dest], source |-> cur,
                                     written_by |-> temp_fs[d][last[dest]],
                                     copied_by |-> run]
                               ELSE out_fs[dest]]
    /\ rename_plan' = SelectSeq(rename_plan, LAMBDA e : e.k # cur)
    /\ log' = Append(log, Event("relocate", cur, run))
    /\ pc' = IF inputs.delete_temp_files THEN "cleanup" ELSE "loop"
    /\ UNCHANGED <<utility_vars, exec_args, command>>
    /\ UNCHANGED <<map_args, epw_categories, incomplete_epw_categories, inputs,
                   raised, plan_errors, unmatched, last_call, todo, cur, run, outcome,
                   temp_fs, nruns, ncalls>>

\* shutil.copy2 of every file with a destination, in the order os.listdir
\* gives them: where several files have one destination, any of them may be
\* the last one copied
process_generated_files ==
    /\ pc = "relocate"
    /\ LET d == temp_epw_output_dir(cur)
           plan == plan_of(cur)
           gens == relocated(cur, d)
           dests == {destination_path(plan, g) : g \in gens}
       IN  \E last \in [dests -> gens] :
              /\ \A dest \in dests : destination_path(plan, last[dest]) = dest
              /\ out_fs' = [dest \in DOMAIN out_fs \cup dests |->
                               IF dest \in dests
                               THEN [name |-> last[dest], source |-> cur,
                                     written_by |-> temp_fs[d][last[dest]],
                                     copied_by |-> run]
                               ELSE out_fs[dest]]
    /\ log' = Append(log, Event("relocate", cur, run))
    /\ pc' = IF inputs.delete_temp_files THEN "cleanup" ELSE "loop"
    /\ UNCHANGED <<utility_vars, exec_args, command>>
    /\ UNCHANGED <<map_args, epw_categories, incomplete_epw_categories, rename_plan, inputs,
                   raised, plan_errors, unmatched, last_call, todo, cur, run, outcome,
                   temp_fs, nruns, ncalls>>

\* line 188: shutil.rmtree(temp_epw_output_dir) removes the directory, or
\* raises PermissionError, which nothing catches
rmtree(removed) ==
    /\ pc = "cleanup"
    /\ LET d == temp_epw_output_dir(cur)
       IN  IF removed
           THEN /\ temp_fs' = [x \in DOMAIN temp_fs \ {d} |-> temp_fs[x]]
                /\ log' = Append(log, Event("cleanup", cur, run))
                /\ pc' = "loop"
                /\ UNCHANGED raised
           ELSE /\ raised' = "PermissionError"
                /\ pc' = "idle"
                /\ UNCHANGED <<temp_fs, log>>
    /\ UNCHANGED <<utility_vars, exec_args, command>>
    /\ UNCHANGED <<map_args, epw_categories, incomplete_epw_categories, rename_plan, inputs,
                   plan_errors, unmatched, last_call, todo, cur, run, outcome, out_fs,
                   nruns, ncalls>>

(***************************************************************************)
(* The workflow after __init__, and its steps                              *)
(***************************************************************************)
\* nothing of the utilities has run
UtilityInit ==
    /\ lcz_call = [called |-> FALSE]
    /\ iter_args = [called |-> FALSE, runs_df |-> <<>>, keyword_mapping |-> NoMapping]
    /\ prepared_workflows = <<>>
    /\ iter_pc = "idle"
    /\ iter_todo = <<>>
    /\ iter_log = <<>>
    /\ iter_raised = "none"

Init ==
    /\ epw_categories = EmptyDict
    /\ incomplete_epw_categories = EmptyDict
    /\ rename_plan = EmptyDict
    /\ map_args = [input_filename_pattern |-> NoPattern, keyword_mapping |-> NoMapping]
    /\ inputs = [epw_files |-> <<>>, final_output_dir |-> <<>>,
                 output_filename_pattern |-> <<>>, scenario_mapping |-> EmptyDict,
                 raise_on_overwrite |-> FALSE, run_incomplete_files |-> FALSE,
                 delete_temp_files |-> TRUE, fwg_jar_path |-> <<>>,
                 fwg_params |-> EmptyDict]
    /\ raised = "none"
    /\ plan_errors = {}
    /\ unmatched = {}
    /\ last_call = "__init__"
    /\ pc = "idle"
    /\ todo = <<>>
    /\ cur = <<>>
    /\ run = 0
    /\ outcome = "none"
    /\ temp_fs = <<>>
    /\ out_fs = <<>>
    /\ log = <<>>
    /\ nruns = 0
    /\ ncalls = 0
    /\ exec_args = [fwg_params |-> NoParams, explicit |-> EmptyDict]
    /\ command = <<>>
    /\ UtilityInit

\* the calls of one workflow, at most MaxCalls of them
Called(call) ==
    /\ ncalls < MaxCalls
    /\ call
    /\ ncalls' = ncalls + 1

ExecFileLists == {l \in Windows : Len(l) = MaxFiles /\ l[Len(l)] \in ExistingFiles}
ExecStrategies == {<<NoPattern, KeywordRules>>}
ExecTemplates == {TemplateCityYear, TemplateFull, TemplateCityUhiYear}

MapCategories ==
    \E epw_files \in ExecFileLists, s \in ExecStrategies :
        Called(map_categories(epw_files, s[1], s[2]))

PreviewRenamePlan ==
    \E dir \in FinalOutputDirs, t \in ExecTemplates, strict \in BOOLEAN :
        Called(preview_rename_plan(dir, t, ScenarioLabels, strict))

ExecuteMorphing ==
    \E run_incomplete_files \in BOOLEAN, delete_temp_files \in BOOLEAN :
        Called(execute_morphing(run_incomplete_files, delete_temp_files, NoParams, EmptyDict))

EngineReturns ==
    \E r \in EngineResults : engine_returns(r.result, r.written)

Rmtree == \E removed \in BOOLEAN : rmtree(removed)

Next ==
    \/ MapCategories
    \/ PreviewRenamePlan
    \/ ExecuteMorphing
    \/ loop_next
    \/ loop_done
    \/ EngineReturns
    \/ process_generated_files
    \/ Rmtree

Spec == Init /\ [][Next]_vars

(***************************************************************************)
(* One planning pass of a workflow, over every list, strategy, template    *)
(* and mode: map_categories, then preview_rename_plan any number of times; *)
(* a call of map_categories without pattern and mapping may come at any    *)
(* time and ends the pass.                                                 *)
(***************************************************************************)
PlanMapCategories ==
    \E epw_files \in FileLists, s \in Strategies :
        /\ \/ last_call = "__init__"
           \/ /\ s[1] = NoPattern /\ s[2] = NoMapping
              /\ raised # "ValueError"
              /\ epw_files = inputs.epw_files
        /\ map_categories(epw_files, s[1], s[2])
        /\ UNCHANGED ncalls

PlanPreviewRenamePlan ==
    \E dir \in FinalOutputDirs, t \in Templates, sm \in ScenarioMappings,
       strict \in BOOLEAN :
        /\ raised # "ValueError"
        /\ preview_rename_plan(dir, t, sm, strict)
        /\ UNCHANGED ncalls

PlanNext == PlanMapCategories \/ PlanPreviewRenamePlan

PlanSpec == Init /\ [][PlanNext]_vars

(***************************************************************************)
(* One workflow that is mapped, previewed and executed once, over the      *)
(* engine parameters a caller may pass to execute_morphing.                *)
(***************************************************************************)
UhiOff == <<"0", ":", "14", ":", "1">>

\* fwg_params of the caller
BaseParams ==
    {NoParams,
     <<[k |-> "month_transition_hours", v |-> <<"24">>]>>,
     <<[k |-> "gcms", v |-> <<"CanESM5", "MIROC6">>], [k |-> "uhi_options", v |-> UhiOff]>>}

\* the explicit fwg_ arguments of the caller
ExplicitArgs ==
    {EmptyDict,
     <<[k |-> "fwg_month_transition_hours", v |-> <<"48">>]>>,
     <<[k |-> "fwg_uhi_options", v |-> UhiOff]>>,
     <<[k |-> "fwg_use_multithreading", v |-> <<"False">>],
       [k |-> "fwg_create_ensemble", v |-> <<"False">>]>>}

ConfigMapCategories ==
    \E epw_files \in ExecFileLists :
        /\ last_call = "__init__"
        /\ map_categories(epw_files, NoPattern, KeywordRules)
        /\ UNCHANGED ncalls

ConfigPreviewRenamePlan ==
    /\ last_call = "map_categories"
    /\ preview_rename_plan(<<"out">>, TemplateCityYear, ScenarioLabels, FALSE)
    /\ UNCHANGED ncalls

ConfigExecuteMorphing ==
    \E run_incomplete_files \in BOOLEAN, delete_temp_files \in BOOLEAN, fwg_params \in BaseParams, explicit \in ExplicitArgs :
        /\ last_call = "preview_rename_plan"
        /\ execute_morphing(run_incomplete_files, delete_temp_files, fwg_params, explicit)
        /\ UNCHANGED ncalls

ConfigNext ==
    \/ ConfigMapCategories
    \/ ConfigPreviewRenamePlan
    \/ ConfigExecuteMorphing
    \/ loop_next
    \/ loop_done
    \/ EngineReturns
    \/ process_generated_files
    \/ Rmtree

ConfigSpec == Init /\ [][ConfigNext]_vars

(***************************************************************************)
(* check_lcz_availability of src/pyfwg/wip/utils.py.  A text is the        *)
(* sequence of its lines and a line a sequence of symbols; "LCZ", " " and  *)
(* the numbers are symbols of their own.                                   *)
(***************************************************************************)
workflow_vars ==
    <<epw_categories, incomplete_epw_categories, rename_plan, inputs,
      raised, plan_errors, unmatched, last_call, map_args,
      pc, todo, cur, run, outcome, temp_fs, out_fs, log, nruns, ncalls,
      exec_args, command>>

MarkerLine == <<"The LCZs available are:">>
ErrorLine == <<"ERROR", " ", "LCZ", " ", "3", " ", "is not valid">>
Lcz2Line == <<" ", " ", "LCZ", " ", "2", " ", "Compact midrise", " ">>
Lcz14Line == <<" ", "LCZ", " ", "14", " ", "Low plants">>
NoiseLine == <<"Exiting">>

\* int() of the digits of a number
int(digits) ==
    CASE digits = "2" -> 2
      [] digits = "3" -> 3
      [] digits = "14" -> 14
      [] OTHER -> 0

Digits == {"2", "3", "14"}

\* how the run of the UHI_Morph tool ends
LczProcesses ==
    {[kind |-> "ok", stdout |-> <<NoiseLine>>, stderr |-> <<>>],
     [kind |-> "CalledProcessError",
      stdout |-> <<ErrorLine, MarkerLine, Lcz2Line, NoiseLine, Lcz14Line>>, stderr |-> <<>>],
     [kind |-> "CalledProcessError",
      stdout |-> <<ErrorLine>>, stderr |-> <<MarkerLine, Lcz14Line>>],
     [kind |-> "CalledProcessError",
      stdout |-> <<ErrorLine, Lcz2Line>>, stderr |-> <<NoiseLine>>],
     [kind |-> "CalledProcessError",
      stdout |-> <<MarkerLine, NoiseLine>>, stderr |-> <<ErrorLine>>],
     [kind |-> "FileNotFoundError", stdout |-> <<>>, stderr |-> <<>>],
     [kind |-> "TimeoutExpired", stdout |-> <<>>, stderr |-> <<>>]}

\* the LCZ numbers a caller asks for; 0 and 18 are out of range
LczNumbers == {0, 2, 3, 14, 18}

\* utils.py lines 79-80 and 110-127: what uhi_morph raises
uhi_morph(fwg_original_lcz, fwg_target_lcz, process) ==
    IF ~(1 <= fwg_original_lcz /\ fwg_original_lcz <= 17) THEN "ValueError"
    ELSE IF ~(1 <= fwg_target_lcz /\ fwg_target_lcz <= 17) THEN "ValueError"
    ELSE IF process.kind = "ok" THEN "none"
    ELSE process.kind

\* re.search(r'LCZ (\d+)', line): the index of the number of the first match, or 0
lcz_match(line) ==
    LET at == {i \in DOMAIN line :
                  /\ i + 2 <= Len(line)
                  /\ line[i] = "LCZ" /\ line[i + 1] = " " /\ line[i + 2] \in Digits}
    IN  IF at = {} THEN 0 ELSE (CHOOSE i \in at : \A j \in at : i <= j) + 2

\* line.strip()
RECURSIVE lstrip(_)
lstrip(line) ==
    IF line # <<>> /\ line[1] = " " THEN lstrip(Tail(line)) ELSE line

RECURSIVE rstrip(_)
rstrip(line) ==
    IF line # <<>> /\ line[Len(line)] = " " THEN rstrip(SubSeq(line, 1, Len(line) - 1))
    ELSE line

strip(line) == rstrip(lstrip(line))

\* a variant of the scan that does not wait for the marker line
RECURSIVE parse_available_unmarked(_, _, _)
parse_available_unmarked(lines, start_parsing, st) ==
    IF lines = <<>> THEN st
    ELSE LET line == lines[1]
         IN  IF lcz_match(line) # 0
             THEN parse_available_unmarked(Tail(lines), TRUE,
                      [numbers |-> st.numbers \cup {int(line[lcz_match(line)])},
                       full_text |-> Append(st.full_text, strip(line))])
             ELSE parse_available_unmarked(Tail(lines), TRUE, st)

\* utils.py lines 188-201: the scan of the output
RECURSIVE parse_available(_, _, _)
parse_available(lines, start_parsing, st) ==
    IF lines = <<>> THEN st
    ELSE LET line == lines[1]
         IN  IF MarkerLine[1] \in Range(line)
             THEN parse_available(Tail(lines), TRUE, st)
             ELSE IF start_parsing /\ lcz_match(line) # 0
             THEN parse_available(Tail(lines), start_parsing,
                      [numbers |-> st.numbers \cup {int(line[lcz_match(line)])},
                       full_text |-> Append(st.full_text, strip(line))])
             ELSE parse_available(Tail(lines), start_parsing, st)

LczReturn(returns, invalid_messages, available) ==
    [returns |-> returns, invalid_messages |-> invalid_messages, available |-> available,
     raised |-> "none"]

\* utils.py lines 204-228: the diagnosis
diagnosis(original_lcz, target_lcz, parsed) ==
    IF parsed.full_text # <<>>
    THEN LET m1 == IF original_lcz \notin parsed.numbers
                   THEN <<[which |-> "original", lcz |-> original_lcz]>> ELSE <<>>
             m2 == IF target_lcz \notin parsed.numbers /\ original_lcz # target_lcz
                   THEN Append(m1, [which |-> "target", lcz |-> target_lcz]) ELSE m1
             m3 == IF original_lcz = target_lcz /\ original_lcz \notin parsed.numbers
                   THEN <<[which |-> "specified", lcz |-> original_lcz]>> ELSE m2
         IN  LczReturn("dict", m3, parsed.full_text)
    ELSE LczReturn("False", <<>>, <<>>)

\* utils.py lines 164-232
check_lcz_availability(original_lcz, target_lcz, process) ==
    LET e == uhi_morph(original_lcz, target_lcz, process)
    IN  IF e = "none" THEN LczReturn("True", <<>>, <<>>)
        ELSE IF e = "CalledProcessError"
        THEN diagnosis(original_lcz, target_lcz,
                       parse_available(process.stdout \o process.stderr, FALSE,
                                       [numbers |-> {}, full_text |-> <<>>]))
        ELSE LczReturn("False", <<>>, <<>>)

CheckLczAvailability ==
    \E original_lcz \in LczNumbers, target_lcz \in LczNumbers, process \in LczProcesses :
        /\ lcz_call' = [called |-> TRUE, original_lcz |-> original_lcz,
                        target_lcz |-> target_lcz, process |-> process,
                        result |-> check_lcz_availability(original_lcz, target_lcz, process)]
        /\ UNCHANGED <<workflow_vars, iterator_vars>>

LczNext == CheckLczAvailability

LczSpec == Init /\ [][LczNext]_vars

(***************************************************************************)
(* MorphingIterator of src/pyfwg/wip/iterator_v06.py.  A row of the runs   *)
(* DataFrame holds its keyword_mapping cell (NoMapping when the cell is    *)
(* empty) and how configure_and_preview of the workflow class ends for it. *)
(***************************************************************************)
RowKinds ==
    [keyword_mapping : {NoMapping, KeywordRules}, configure : {"valid", "invalid", "raises"}]

RunsDataFrames == UNION {[1..n -> RowKinds] : n \in 1..MaxRuns}

\* lines 217 and 259: the mapping of a row, or the one of the call
row_keyword_map(row, keyword_mapping) ==
    IF row.keyword_mapping # NoMapping THEN row.keyword_mapping ELSE keyword_mapping

\* map_categories of the workflow class raises ValueError without pattern
\* and mapping (src/pyfwg_v10.py, lines 54-55)
map_categories_raises(input_filename_pattern, keyword_mapping) ==
    input_filename_pattern = NoPattern /\ keyword_mapping = NoMapping

\* lines 213-228: the dry run of the mapping of every row, outside any try
dry_run_raises(runs_df, keyword_mapping) ==
    \E i \in DOMAIN runs_df :
        map_categories_raises(NoPattern, row_keyword_map(runs_df[i], keyword_mapping))

\* lines 255-274: one workflow for every row, kept unless its preparation raises
RECURSIVE prepare(_, _, _, _)
prepare(runs_df, index, keyword_mapping, st) ==
    IF index > Len(runs_df) THEN st
    ELSE LET row == runs_df[index]
             failed == \/ map_categories_raises(NoPattern, row_keyword_map(row, keyword_mapping))
                       \/ row.configure = "raises"
         IN  prepare(runs_df, index + 1, keyword_mapping,
                     IF failed
                     THEN [prepared |-> st.prepared,
                           log |-> Append(st.log, [ev |-> "prepare_failed", run |-> index])]
                     ELSE [prepared |-> Append(st.prepared,
                                               [run |-> index,
                                                is_config_valid |-> row.configure = "valid"]),
                           log |-> st.log])

\* lines 179-276
generate_morphing_workflows(runs_df, keyword_mapping) ==
    /\ iter_pc = "idle"
    /\ iter_args' = [called |-> TRUE, runs_df |-> runs_df, keyword_mapping |-> keyword_mapping]
    /\ IF dry_run_raises(runs_df, keyword_mapping)
       THEN /\ iter_raised' = "ValueError"
            /\ UNCHANGED <<prepared_workflows, iter_log>>
       ELSE LET st == prepare(runs_df, 1, keyword_mapping, [prepared |-> <<>>, log |-> <<>>])
            IN  /\ iter_raised' = "none"
                /\ prepared_workflows' = st.prepared
                /\ iter_log' = st.log
    /\ UNCHANGED <<iter_pc, iter_todo>>
    /\ UNCHANGED <<workflow_vars, lcz_call>>

\* lines 291-294
run_morphing_workflows ==
    /\ iter_pc = "idle"
    /\ IF prepared_workflows = <<>>
       THEN /\ iter_raised' = "RuntimeError"
            /\ UNCHANGED <<iter_pc, iter_todo, iter_log>>
       ELSE /\ iter_raised' = "none"
            /\ iter_pc' = "running"
            /\ iter_todo' = prepared_workflows
            /\ iter_log' = <<>>
    /\ UNCHANGED <<iter_args, prepared_workflows>>
    /\ UNCHANGED <<workflow_vars, lcz_call>>

\* lines 296-310: one run of the batch; execute is how execute_morphing of
\* the workflow ends
run_next(execute) ==
    /\ iter_pc = "running"
    /\ iter_todo # <<>>
    /\ LET workflow == Head(iter_todo)
           ev == IF ~workflow.is_config_valid THEN "skipped"
                 ELSE IF execute = "raises" THEN "failed"
                 ELSE "executed"
       IN  iter_log' = Append(iter_log, [ev |-> ev, run |-> workflow.run])
    /\ iter_todo' = Tail(iter_todo)
    /\ UNCHANGED <<iter_args, prepared_workflows, iter_pc, iter_raised>>
    /\ UNCHANGED <<workflow_vars, lcz_call>>

\* line 312
run_done ==
    /\ iter_pc = "running"
    /\ iter_todo = <<>>
    /\ iter_pc' = "idle"
    /\ UNCHANGED <<iter_args, prepared_workflows, iter_todo, iter_log, iter_raised>>
    /\ UNCHANGED <<workflow_vars, lcz_call>>

\* one iterator: its workflows are generated once and run any number of times
GenerateMorphingWorkflows ==
    \E runs_df \in RunsDataFrames, keyword_mapping \in {NoMapping, KeywordRules} :
        /\ ~iter_args.called
        /\ generate_morphing_workflows(runs_df, keyword_mapping)

RunNext == \E execute \in {"ok", "raises"} : run_next(execute)

IterNext ==
    \/ GenerateMorphingWorkflows
    \/ run_morphing_workflows
    \/ RunNext
    \/ run_done

IterSpec == Init /\ [][IterNext]_vars

(***************************************************************************)
(* Properties of planning.  They are stated on the template and the        *)
(* mapped data directly: a placeholder is a symbol between two braces, a   *)
(* rendering is the template with every placeholder replaced by its value. *)
(***************************************************************************)
AllMapped == merge(epw_categories, incomplete_epw_categories)

Previewed == last_call = "preview_rename_plan" /\ raised # "RuntimeError"

Placeholders(t) ==
    {t[i] : i \in {j \in 2..(Len(t) - 1) : t[j - 1] = "{" /\ t[j + 1] = "}"}}

RequiredOf(t) == Placeholders(t) \ {"scenario", "ssp_full_name", "year"}

FailingFiles == {e.file : e \in plan_errors}

ValidFiles ==
    {AllMapped[i].k : i \in {j \in DOMAIN AllMapped :
        RequiredOf(inputs.output_filename_pattern) \subseteq keyset(AllMapped[j].v)}}

ScenarioNames == {"ssp126", "ssp245", "ssp370", "ssp585"}
YearNames == {"2050", "2080"}

ValueOf(name, m, s, y) ==
    CASE name = "scenario" -> <<s>>
      [] name = "year" -> <<y>>
      [] name = "ssp_full_name" ->
            IF \E i \in DOMAIN inputs.scenario_mapping : inputs.scenario_mapping[i].k = s
            THEN get(inputs.scenario_mapping, s) ELSE <<s>>
      [] OTHER -> get(m, name)

ExpectedName(m, s, y) ==
    LET t == inputs.output_filename_pattern
    IN  Concat([i \in DOMAIN t |->
                   IF t[i] \in {"{", "}"} THEN <<>>
                   ELSE IF i > 1 /\ i < Len(t) /\ t[i - 1] = "{" /\ t[i + 1] = "}"
                        THEN ValueOf(t[i], m, s, y)
                        ELSE <<t[i]>>])

ExpectedDest(f, s, y) ==
    inputs.final_output_dir \o <<"/">> \o ExpectedName(get(AllMapped, f), s, y)
        \o <<".", "epw">>

\* C1: after a preview, a mapped file has an entry in the plan exactly when
\* every placeholder of the template other than scenario, ssp_full_name and
\* year is a key of its mapped data; a file without entry is reported with
\* exactly the placeholders it lacks.  With a mapping that holds city only,
\* {city}_{year} is accepted and {city}_{uhi}_{year} is rejected for uhi.
C1_EntryIffPlaceholdersMapped ==
    (Previewed /\ raised = "none") =>
        /\ \A i \in DOMAIN AllMapped :
              LET f == AllMapped[i].k
                  m == AllMapped[i].v
                  need == RequiredOf(inputs.output_filename_pattern)
              IN  /\ has(rename_plan, f) <=> need \subseteq keyset(m)
                  /\ ~has(rename_plan, f) =>
                        [file |-> f, missing |-> need \ keyset(m)] \in plan_errors
                  /\ (keyset(m) = {"city"}
                      /\ inputs.output_filename_pattern = TemplateCityYear)
                        => has(rename_plan, f)
                  /\ (keyset(m) = {"city"}
                      /\ inputs.output_filename_pattern = TemplateCityUhiYear)
                        => [file |-> f, missing |-> {"uhi"}] \in plan_errors
        /\ keyset(rename_plan) \subseteq keyset(AllMapped)
        /\ \A e \in plan_errors : e.file \in keyset(AllMapped) \ keyset(rename_plan)

\* a batch of which one file is planned and another is rejected
C1_Witness ==
    /\ Previewed /\ raised = "none"
    /\ rename_plan # EmptyDict
    /\ \E e \in plan_errors : e.missing = {"uhi_type"}

\* C2: the inner plan of a planned file has exactly one key
\* <scenario>_<year>.epw for each of the four scenarios and the two years,
\* and its value is the output directory joined with the rendering of the
\* template over the mapped data, scenario, year and ssp_full_name (the
\* label of the scenario mapping, or the raw scenario), followed by .epw.
C2_PlanKeysAndValues ==
    (Previewed /\ raised = "none") =>
        \A i \in DOMAIN rename_plan :
            LET f == rename_plan[i].k
                inner == rename_plan[i].v
            IN  /\ Len(inner) = 8
                /\ keyset(inner) =
                      {<<s, "_", y, ".", "epw">> : s \in ScenarioNames, y \in YearNames}
                /\ \A s \in ScenarioNames, y \in YearNames :
                      get(inner, <<s, "_", y, ".", "epw">>) = ExpectedDest(f, s, y)

\* a plan rendered with a label of the scenario mapping
C2_Witness ==
    /\ Previewed /\ raised = "none"
    /\ inputs.output_filename_pattern = TemplateFull
    /\ inputs.scenario_mapping = ScenarioLabels
    /\ has(rename_plan, FileA)

\* C4: when a file fails validation the preview does not raise, the plan has
\* no key for the file, and the plan is the one the preview builds for the
\* batch without the failing files.
C4_FailingFileContributesNothing ==
    (Previewed /\ ~inputs.raise_on_overwrite /\ plan_errors # {}) =>
        /\ raised = "none"
        /\ \A e \in plan_errors : ~has(rename_plan, e.file)
        /\ rename_plan =
              preview_loop(SelectSeq(AllMapped, LAMBDA x : x.k \notin FailingFiles),
                           inputs.final_output_dir, inputs.output_filename_pattern,
                           inputs.scenario_mapping,
                           [err |-> "none", plan |-> EmptyDict, errors |-> {}]).plan

\* a batch with a failing file and a planned file
C4_Witness ==
    /\ Previewed /\ ~inputs.raise_on_overwrite
    /\ plan_errors # {}
    /\ \E i \in DOMAIN rename_plan : Len(rename_plan[i].v) = 8

\* C9 as stated: in the default mode no destination is left to an earlier
\* file once a later file has rendered it.
C9_LaterReplacesEarlier ==
    (Previewed /\ ~inputs.raise_on_overwrite) =>
        \A e1, e2 \in PlanEntries(rename_plan) :
            e1.dest = e2.dest => e1.file = e2.file

\* C9: in the default mode the preview does not fail, and two files with the
\* same mapped data that pass validation both keep all their entries, each
\* key with the same destination under both files.
C9_BothFilesKeepEntries ==
    (Previewed /\ ~inputs.raise_on_overwrite) =>
        /\ raised = "none"
        /\ \A f1, f2 \in ValidFiles :
              (/\ keyset(get(AllMapped, f1)) = keyset(get(AllMapped, f2))
               /\ \A k \in keyset(get(AllMapped, f1)) :
                     get(get(AllMapped, f1), k) = get(get(AllMapped, f2), k))
              => /\ has(rename_plan, f1) /\ has(rename_plan, f2)
                 /\ Len(get(rename_plan, f1)) = 8
                 /\ \A s \in ScenarioNames, y \in YearNames :
                       /\ has(get(rename_plan, f1), <<s, "_", y, ".", "epw">>)
                       /\ has(get(rename_plan, f2), <<s, "_", y, ".", "epw">>)
                       /\ get(get(rename_plan, f1), <<s, "_", y, ".", "epw">>)
                            = get(get(rename_plan, f2), <<s, "_", y, ".", "epw">>)

\* two files of one name in two directories, planned to the same paths
C9_Witness ==
    /\ Previewed /\ ~inputs.raise_on_overwrite
    /\ has(rename_plan, FileA) /\ has(rename_plan, FileB)
    /\ \E e1, e2 \in PlanEntries(rename_plan) :
          e1.file = FileA /\ e2.file = FileB /\ e1.dest = e2.dest

(***************************************************************************)
(* Properties of the execution.                                            *)
(***************************************************************************)
\* the relocation of the current file has just been done
Relocated ==
    /\ pc \in {"cleanup", "loop"}
    /\ log # <<>>
    /\ log[Len(log)].ev = "relocate"

IsCompanion(g) == Len(g) = 5 /\ g[2] = "_" /\ g[4] = "." /\ g[5] = "stat"

\* C3: at relocation a file <scenario>_<year>.stat is copied exactly when the
\* plan of the file has the key <scenario>_<year>.epw, and then to the
\* destination of that key with its final extension .epw replaced by .stat.
C3_StatCompanion ==
    Relocated =>
        \A g \in DOMAIN temp_fs[temp_epw_output_dir(cur)] :
            IsCompanion(g) =>
                LET k == <<g[1], "_", g[3], ".", "epw">>
                    plan == get(rename_plan, cur)
                    copies == {dest \in DOMAIN out_fs :
                                  /\ out_fs[dest].copied_by = run
                                  /\ out_fs[dest].name = g}
                IN  IF has(plan, k)
                    THEN LET p == get(plan, k)
                         IN  /\ SubSeq(p, Len(p) - 1, Len(p)) = <<".", "epw">>
                             /\ copies = {SubSeq(p, 1, Len(p) - 2) \o <<".", "stat">>}
                    ELSE copies = {}

\* a relocation that copied a companion and left another one behind
C3_Witness ==
    /\ Relocated
    /\ Gen119Stat \in DOMAIN temp_fs[temp_epw_output_dir(cur)]
    /\ \E dest \in DOMAIN out_fs :
          out_fs[dest].copied_by = run /\ out_fs[dest].name = Gen126Stat

PlannedToProcess ==
    {f \in keyset(epw_categories) \cup
           (IF inputs.run_incomplete_files THEN keyset(incomplete_epw_categories) ELSE {}) :
        has(rename_plan, f)}

Invoked == {log[i].file : i \in {j \in DOMAIN log : log[j].ev = "invoke"}}

C6_TimeoutLikeNonZeroExit ==
    outcome = "timeout" =>
        /\ pc = "loop" /\ raised = "none"
        /\ log # <<>> /\ log[Len(log)] = Event("fail", cur, run)

\* C7: the engine is only ever run on a file that has an entry in the plan:
\* never on a file the mapping left unmatched, nor on one that failed the
\* validation of the template.
C7_EngineOnlyForPlannedFiles ==
    /\ pc = "engine" =>
          /\ has(rename_plan, cur)
          /\ cur \notin unmatched
          /\ cur \notin FailingFiles
    /\ pc # "idle" =>
          \A i \in DOMAIN log :
              /\ has(rename_plan, log[i].file)
              /\ log[i].file \notin unmatched \cup FailingFiles

\* a call that is over, with a file of its list that failed validation
C7_Witness ==
    /\ pc = "loop" /\ todo = <<>> /\ log # <<>>
    /\ \E e \in plan_errors :
          e.file \in Range(files_to_process(inputs.run_incomplete_files))

\* C8: every planned file of the list is taken once: the engine, then the
\* relocation, then the cleanup when it is enabled, and the next file only
\* when the file before it is finished.
C8_OncePerFileInSequence ==
    pc # "idle" =>
        /\ \A i, j \in DOMAIN log :
              (i # j /\ log[i].ev = "invoke" /\ log[j].ev = "invoke")
                  => log[i].file # log[j].file
        /\ \A i \in DOMAIN log :
              /\ log[i].ev = "invoke" =>
                    \/ i = 1
                    \/ log[i - 1].ev \in {"fail", "cleanup"}
                    \/ log[i - 1].ev = "relocate" /\ ~inputs.delete_temp_files
              /\ log[i].ev = "relocate" =>
                    /\ i > 1 /\ log[i - 1] = Event("invoke", log[i].file, log[i].run)
                    /\ inputs.delete_temp_files =>
                          IF i < Len(log)
                          THEN log[i + 1] = Event("cleanup", log[i].file, log[i].run)
                          ELSE pc = "cleanup"
              /\ log[i].ev = "cleanup" =>
                    /\ inputs.delete_temp_files
                    /\ i > 1 /\ log[i - 1] = Event("relocate", log[i].file, log[i].run)
        /\ pc \in {"engine", "relocate", "cleanup"} =>
              /\ log # <<>>
              /\ log[Len(log)].file = cur /\ log[Len(log)].run = run
        /\ (pc = "loop" /\ todo = <<>>) => Invoked = PlannedToProcess

\* a call that is over after two files went through all three steps
C8_Witness ==
    /\ pc = "loop" /\ todo = <<>>
    /\ Len(log) = 6
    /\ log[3].ev = "cleanup" /\ log[6].ev = "cleanup"

\* the destinations the preview renders for the files that pass validation
Renderings ==
    {[file |-> f, scenario |-> s, year |-> y, dest |-> ExpectedDest(f, s, y)] :
        f \in ValidFiles, s \in ScenarioNames, y \in YearNames}

WouldCollide == \E r1, r2 \in Renderings : r1 # r2 /\ r1.dest = r2.dest

\* C10: in the strict mode the preview fails with a configuration error
\* exactly when two of the rendered destinations are the same path; no plan
\* is kept then, so that the engine never runs on a strict plan in which two
\* entries share a destination.
C10_StrictModeRaises ==
    /\ (Previewed /\ inputs.raise_on_overwrite) =>
          IF WouldCollide
          THEN raised = "ConfigurationError" /\ rename_plan = EmptyDict
          ELSE raised = "none" /\ keyset(rename_plan) = ValidFiles
    /\ (pc # "idle" /\ inputs.raise_on_overwrite) =>
          \A e1, e2 \in PlanEntries(rename_plan) : e1.dest = e2.dest => e1 = e2

\* a strict preview that found two equal destinations
C10_Witness ==
    /\ Previewed /\ inputs.raise_on_overwrite
    /\ WouldCollide
    /\ raised = "ConfigurationError"
    /\ rename_plan = EmptyDict

(***************************************************************************)
(* Properties of the mapping.  map_args holds the pattern and the keyword  *)
(* mapping of the last call of map_categories.                             *)
(***************************************************************************)
Pat == map_args.input_filename_pattern
Kw == map_args.keyword_mapping

Mapped == last_call = "map_categories" /\ raised = "none"

BaseName(f) == splitext_root(basename(f))

\* the named groups that took part in the match of the pattern on a file
GroupsOf(f) ==
    LET m == re_search(Pat, BaseName(f))
    IN  IF m.matched
        THEN {m.groups[i].k : i \in {j \in DOMAIN m.groups : m.groups[j].v # None}}
        ELSE {}

Stored == merge(epw_categories, incomplete_epw_categories)

\* C11 as stated: a call of map_categories raises exactly when it is given
\* both a pattern and a keyword mapping, or neither.
C11_BothOrNeitherRaises ==
    last_call = "map_categories" =>
        (raised = "ValueError" <=> ((Pat = NoPattern) <=> (Kw = NoMapping)))

\* C11: a call of map_categories with neither a pattern nor a keyword
\* mapping raises ValueError and leaves epw_categories,
\* incomplete_epw_categories and rename_plan as they were; a call with both
\* does not raise: the pattern alone decides which files are stored, all of
\* them as complete, and the keyword mapping only normalizes the values.
C11_NeitherRaisesBothUsesPattern ==
    [][last_call' = "map_categories" =>
          IF Pat' = NoPattern /\ Kw' = NoMapping
          THEN /\ raised' = "ValueError"
               /\ UNCHANGED <<epw_categories, incomplete_epw_categories, rename_plan,
                              inputs, unmatched>>
          ELSE /\ raised' = "none"
               /\ (Pat' # NoPattern /\ Kw' # NoMapping) =>
                     /\ incomplete_epw_categories' = EmptyDict
                     /\ keyset(epw_categories') =
                           {f \in Range(inputs'.epw_files) :
                               /\ f \in ExistingFiles
                               /\ LET m == re_search(Pat', BaseName(f))
                                  IN  /\ m.matched
                                      /\ \E i \in DOMAIN m.groups : m.groups[i].v # None}
    ]_vars

\* a call with a pattern and a keyword mapping that stored a file
C11_Witness ==
    /\ Mapped
    /\ Pat # NoPattern /\ Kw # NoMapping
    /\ epw_categories # EmptyDict

PatternMode == Mapped /\ Pat # NoPattern
KeywordMode == Mapped /\ Pat = NoPattern /\ Kw # NoMapping

\* the existing files of the list of the last call
Listed == {f \in Range(inputs.epw_files) : f \in ExistingFiles}

\* C12: in pattern mode the keys a file is stored with are exactly the named
\* groups that took part in the match; a group that took no part is an
\* absent key, and no stored value is None.  A file whose match has such a
\* group is stored.
C12_KeysAreMatchedGroups ==
    PatternMode =>
        /\ \A i \in DOMAIN Stored :
              /\ keyset(Stored[i].v) = GroupsOf(Stored[i].k)
              /\ \A j \in DOMAIN Stored[i].v : Stored[i].v[j].v # None
        /\ \A f \in Listed : GroupsOf(f) # {} => has(Stored, f)
        /\ (Pat = PatternOpt /\ FileC \in Listed) =>
              has(Stored, FileC) /\ keyset(get(Stored, FileC)) = {"city"}

\* a file stored without the optional group
C12_Witness ==
    /\ PatternMode /\ Pat = PatternOpt
    /\ has(Stored, FileC) /\ has(Stored, FileA)
    /\ keyset(get(Stored, FileC)) = {"city"}
    /\ keyset(get(Stored, FileA)) = {"city", "uhi_type"}

\* C13 as stated: in pattern mode the complete files are exactly the
\* existing files whose base name the pattern matches, and no file is
\* incomplete.
C13_MatchIsComplete ==
    PatternMode =>
        /\ incomplete_epw_categories = EmptyDict
        /\ keyset(epw_categories) =
              {f \in Listed : re_search(Pat, BaseName(f)).matched}

\* the categories of the mapping with a keyword in the name of the file
Declared == keyset(Kw)

Hits(f, rules) ==
    UNION {{<<i, j>> : j \in {n \in DOMAIN rules[i].v :
                                 contains(lower(basename(f)), lower(rules[i].v[n]))}} :
           i \in DOMAIN rules}

Found(f) == {Kw[c].k : c \in {n \in DOMAIN Kw : Hits(f, Kw[n].v) # {}}}

\* C14: in keyword mode an existing file with no hit is in neither
\* dictionary; one whose found categories are some but not all of the
\* declared ones is in incomplete_epw_categories, stored with the found
\* categories (the missing ones are the declared ones it lacks); one with
\* all declared categories is in epw_categories; stored keys are declared.
C14_KeywordClassification ==
    KeywordMode =>
        /\ \A f \in Listed :
              /\ Found(f) = {} =>
                    ~has(epw_categories, f) /\ ~has(incomplete_epw_categories, f)
                    /\ f \in unmatched
              /\ (Found(f) # {} /\ Found(f) # Declared) =>
                    /\ ~has(epw_categories, f)
                    /\ has(incomplete_epw_categories, f)
                    /\ keyset(get(incomplete_epw_categories, f)) = Found(f)
                    /\ Declared \ keyset(get(incomplete_epw_categories, f)) # {}
              /\ Found(f) = Declared =>
                    /\ has(epw_categories, f)
                    /\ ~has(incomplete_epw_categories, f)
                    /\ keyset(get(epw_categories, f)) = Declared
        /\ \A i \in DOMAIN Stored :
              Stored[i].k \in Listed /\ keyset(Stored[i].v) \subseteq Declared

\* a list with a complete and an incomplete file
C14_Witness ==
    /\ KeywordMode
    /\ has(epw_categories, FileA)
    /\ has(incomplete_epw_categories, FileC)

\* the mapping without the j-th keyword of the i-th value of category c
WithoutKeyword(c, i, j) ==
    [n \in DOMAIN Kw |->
        IF n # c THEN Kw[n]
        ELSE [k |-> Kw[n].k,
              v |-> [m \in DOMAIN Kw[n].v |->
                        IF m # i THEN Kw[n].v[m]
                        ELSE [k |-> Kw[n].v[m].k,
                              v |-> SubSeq(Kw[n].v[m].v, 1, j - 1)
                                    \o SubSeq(Kw[n].v[m].v, j + 1, Len(Kw[n].v[m].v))]]]]

\* the result for file f under a mapping
ResultOf(f, mapping) ==
    LET st == map_loop(<<f>>, NoPattern, mapping,
                       [complete |-> EmptyDict, incomplete |-> EmptyDict, skipped |-> {}])
    IN  IF has(st.complete, f) THEN [class |-> "Complete", keys |-> keyset(get(st.complete, f))]
        ELSE IF has(st.incomplete, f)
             THEN [class |-> "Incomplete", keys |-> keyset(get(st.incomplete, f))]
             ELSE [class |-> "Unmatched", keys |-> {}]

\* the (category, value, keyword) positions that are a category's only hit
OnlyHits(f) ==
    UNION {{<<c, h[1], h[2]>> : h \in Hits(f, Kw[c].v)} :
           c \in {n \in DOMAIN Kw : Cardinality(Hits(f, Kw[n].v)) = 1}}

\* C15 as stated: a file with a hit in every declared category is complete,
\* and without the only keyword that hits in one category it is incomplete
\* with exactly that category missing.
C15_RemovalGivesIncomplete ==
    KeywordMode =>
        \A f \in Listed :
            Found(f) = Declared =>
                /\ has(epw_categories, f)
                /\ \A t \in OnlyHits(f) :
                      ResultOf(f, WithoutKeyword(t[1], t[2], t[3]))
                          = [class |-> "Incomplete", keys |-> Declared \ {Kw[t[1]].k}]

\* C15: a file with a hit in every declared category is complete; without
\* the only keyword that hits in one category it is incomplete with exactly
\* that category missing when another category is declared, and unmatched
\* when that category is the only one declared.
C15_RemovalGivesIncompleteOrUnmatched ==
    KeywordMode =>
        \A f \in Listed :
            Found(f) = Declared =>
                /\ has(epw_categories, f)
                /\ \A t \in OnlyHits(f) :
                      ResultOf(f, WithoutKeyword(t[1], t[2], t[3]))
                          = IF Cardinality(Declared) > 1
                            THEN [class |-> "Incomplete", keys |-> Declared \ {Kw[t[1]].k}]
                            ELSE [class |-> "Unmatched", keys |-> {}]

\* a complete file under two categories, each with a single hit
C15_Witness ==
    /\ KeywordMode
    /\ has(epw_categories, FileA)
    /\ Cardinality(Declared) = 2
    /\ Cardinality(OnlyHits(FileA)) = 2

\* C16 as stated: no stored category value is the empty string.
C16_NoEmptyValue ==
    \A i \in DOMAIN Stored :
        \A j \in DOMAIN Stored[i].v : Stored[i].v[j].v # <<>>

\* C17: an incomplete file is kept in incomplete_epw_categories and is
\* planned by the preview exactly as a complete file is; the engine runs on
\* it only in a call with run_incomplete_files, and then on every planned
\* one; without it the engine runs on files of epw_categories only.
C17_IncompleteOnlyOnRequest ==
    /\ (Previewed /\ raised = "none") =>
          \A f \in keyset(incomplete_epw_categories) :
              /\ has(rename_plan, f) <=> f \in ValidFiles
              /\ has(rename_plan, f) => Len(get(rename_plan, f)) = 8
    /\ pc # "idle" =>
          /\ Invoked \subseteq keyset(epw_categories) \cup keyset(incomplete_epw_categories)
          /\ ~inputs.run_incomplete_files =>
                Invoked \cap keyset(incomplete_epw_categories) = {}
          /\ (inputs.run_incomplete_files /\ pc = "loop" /\ todo = <<>>) =>
                \A f \in keyset(incomplete_epw_categories) :
                    has(rename_plan, f) => f \in Invoked

\* the engine runs on an incomplete file
C17_Witness ==
    /\ pc = "engine"
    /\ inputs.run_incomplete_files
    /\ has(incomplete_epw_categories, cur)

\* C18: after map_categories the two dictionaries are what the arguments of
\* that call give, and after preview_rename_plan the plan is what the
\* dictionaries and the arguments of that call give, whatever was called
\* before: nothing of an earlier call remains, and calls repeated with the
\* same arguments leave the same dictionaries and the same plan.
C18_PlanningDependsOnArgumentsOnly ==
    /\ (Pat # NoPattern \/ Kw # NoMapping) =>
          LET st == map_loop(inputs.epw_files, Pat, Kw,
                             [complete |-> EmptyDict, incomplete |-> EmptyDict,
                              skipped |-> {}])
          IN  /\ epw_categories = st.complete
              /\ incomplete_epw_categories = st.incomplete
              /\ keyset(Stored) \subseteq Range(inputs.epw_files)
    /\ (Previewed /\ raised = "none") =>
          /\ keyset(rename_plan) \subseteq keyset(Stored)
          /\ rename_plan =
                preview_loop(Stored, inputs.final_output_dir,
                             inputs.output_filename_pattern, inputs.scenario_mapping,
                             [err |-> "none", plan |-> EmptyDict, errors |-> {}]).plan

\* a plan made by the fourth call of a workflow
C18_Witness ==
    /\ Previewed /\ raised = "none"
    /\ ncalls >= 4
    /\ rename_plan # EmptyDict

\* the first value of a table with a hit in the name of a file
FirstValue(f, rules) ==
    LET hit == {h[1] : h \in Hits(f, rules)}
        first == CHOOSE i \in hit : \A n \in hit : i <= n
    IN  rules[first].k

\* C19: in keyword mode the value stored for a category is the first value
\* of the category, in the order of the mapping, of which a keyword occurs
\* in the name without regard to case; a key is stored once.
C19_FirstCanonicalValueWins ==
    KeywordMode =>
        \A i \in DOMAIN Stored :
            LET f == Stored[i].k
                cats == Stored[i].v
            IN  /\ Cardinality(keyset(cats)) = Len(cats)
                /\ \A c \in DOMAIN Kw :
                      has(cats, Kw[c].k) =>
                          /\ Hits(f, Kw[c].v) # {}
                          /\ get(cats, Kw[c].k) = FirstValue(f, Kw[c].v)

\* a file with hits for both values of the category, stored with the first
C19_Witness ==
    /\ KeywordMode /\ Kw = KeywordRulesOverlap
    /\ has(Stored, FileA)
    /\ Cardinality({h[1] : h \in Hits(FileA, Kw[1].v)}) = 2
    /\ get(get(Stored, FileA), "city") = <<"Spain">>

\* the raw value of a group in the match of the pattern on a file
RawValue(f, category) ==
    LET m == re_search(Pat, BaseName(f))
    IN  m.groups[CHOOSE i \in DOMAIN m.groups : m.groups[i].k = category].v

\* the entries of the table of a category that hold a raw value
Entries(category, raw) ==
    IF Kw = NoMapping \/ category \notin keyset(Kw) THEN {}
    ELSE LET table == get(Kw, category)
         IN  {i \in DOMAIN table :
                 \E j \in DOMAIN table[i].v : lower(table[i].v[j]) = lower(raw)}

\* C20: in pattern mode the value stored for a group is the canonical value
\* of the first entry of the table of its own category that holds the raw
\* value without regard to case, and the raw value itself when no entry
\* holds it or the category has no table.
C20_NormalizationPerCategory ==
    PatternMode =>
        \A i \in DOMAIN Stored :
            \A j \in DOMAIN Stored[i].v :
                LET f == Stored[i].k
                    category == Stored[i].v[j].k
                    raw == RawValue(f, category)
                    found == Entries(category, raw)
                IN  Stored[i].v[j].v =
                        IF found = {} THEN raw
                        ELSE get(Kw, category)[CHOOSE n \in found : \A m \in found : n <= m].k

\* raw values that are keywords of the other category stay as they are,
\* next to a file whose values are normalized
C20_Witness ==
    /\ PatternMode /\ Pat = PatternBoth /\ Kw = KeywordRules
    /\ has(Stored, FileX) /\ has(Stored, FileA)
    /\ get(get(Stored, FileX), "city") = <<"t1">>
    /\ get(get(Stored, FileX), "uhi_type") = <<"sevilla">>
    /\ get(get(Stored, FileA), "city") = <<"Seville">>
    /\ get(get(Stored, FileA), "uhi_type") = <<"UHI-Type1">>

(***************************************************************************)
(* Properties of the execution and of the order of the calls.              *)
(***************************************************************************)
\* a step of execute_morphing: the call itself or a step of its loop
ExecutionStep ==
    \/ pc # "idle"
    \/ pc' # "idle"
    \/ (last_call' = "execute_morphing" /\ ncalls' # ncalls)

\* C21: rename_plan is read-only during execution: no step of
\* execute_morphing, from the call to its return or its failure, through
\* every engine run, relocation and cleanup, changes rename_plan.
C21_PlanReadOnlyDuringExecution ==
    [][ExecutionStep => rename_plan' = rename_plan]_vars

\* an execution that relocated the outputs of one file and then failed
C21_Witness ==
    /\ last_call = "execute_morphing"
    /\ pc = "idle"
    /\ raised = "TimeoutExpired"
    /\ out_fs # <<>>
    /\ rename_plan # EmptyDict

\* the relocation of the outputs of cur has just been done
JustRelocated ==
    /\ pc \in {"cleanup", "loop"}
    /\ log # <<>>
    /\ log[Len(log)] = Event("relocate", cur, run)

\* the destination files the last relocation made
CopiedNow == {dest \in DOMAIN out_fs : out_fs[dest].copied_by = run}

\* C22 as stated: relocation copies only planned outputs and their .stat
\* companions to the planned places, and a planned key the engine did not
\* write in this run gives no destination file and no error.
C22_OnlyPlannedOutputsRelocated ==
    JustRelocated =>
        LET plan == plan_of(cur)
            dir == temp_fs[temp_epw_output_dir(cur)]
        IN  /\ raised = "none"
            /\ \A dest \in CopiedNow :
                  LET g == out_fs[dest].name
                  IN  \/ has(plan, g) /\ dest = get(plan, g)
                      \/ /\ ~has(plan, g)
                         /\ endswith(g, StatExt)
                         /\ has(plan, replace(g, StatExt, EpwExt))
                         /\ dest = splitext_root(get(plan, replace(g, StatExt, EpwExt))) \o StatExt
            /\ \A k \in keyset(plan) :
                  (k \notin DOMAIN dir \/ dir[k] # run) =>
                      ~\E dest \in CopiedNow : out_fs[dest].name = k

\* C23 as stated: a cleanup that fails with a permission error is not
\* raised and does not keep the files after it from being processed.
C23_CleanupFailureNotRaised ==
    /\ raised # "PermissionError"
    /\ (pc = "idle" /\ last_call = "execute_morphing" /\ raised = "none") => todo = <<>>

\* C24 as stated: the directory of a file holds nothing when the engine
\* starts on the file, and every file relocated was written by the run
\* that relocates it.
C24_FreshTempDir ==
    /\ pc = "engine" => DOMAIN temp_fs[temp_epw_output_dir(cur)] = {}
    /\ \A dest \in DOMAIN out_fs : out_fs[dest].written_by = out_fs[dest].copied_by

\* a call of the workflow is made in this step
CallOf(name) == last_call' = name /\ ncalls' = ncalls + 1

\* C28: preview_rename_plan raises RuntimeError and leaves rename_plan as
\* it is when no file is mapped, completely or incompletely, and does not
\* raise it otherwise; execute_morphing raises RuntimeError, creates no
\* directory and starts no engine run when rename_plan has no entry, and
\* starts its loop otherwise.
C28_StepsAreGuarded ==
    [][/\ CallOf("preview_rename_plan") =>
            IF epw_categories = EmptyDict /\ incomplete_epw_categories = EmptyDict
            THEN raised' = "RuntimeError" /\ rename_plan' = rename_plan
            ELSE raised' # "RuntimeError"
       /\ CallOf("execute_morphing") =>
            IF rename_plan = EmptyDict
            THEN /\ raised' = "RuntimeError"
                 /\ pc' = "idle"
                 /\ UNCHANGED <<temp_fs, out_fs, log, nruns, command>>
            ELSE raised' = "none" /\ pc' = "loop"]_vars

\* execute_morphing refused after a preview in which every mapped file
\* failed the validation of the template
C28_Witness ==
    /\ last_call = "execute_morphing"
    /\ raised = "RuntimeError"
    /\ AllMapped # EmptyDict
    /\ FailingFiles = keyset(AllMapped)
    /\ rename_plan = EmptyDict
    /\ pc = "idle"

\* C29 as stated: every key of rename_plan is a file of the current
\* dictionaries and every entry is rendered from the current mapping of
\* its file; the engine is never started on a file whose entry was planned
\* before the last map_categories.
C29_PlanFollowsMapping ==
    /\ \A i \in DOMAIN rename_plan :
          LET f == rename_plan[i].k
              inner == rename_plan[i].v
          IN  /\ f \in keyset(AllMapped)
              /\ \A s \in ScenarioNames, y \in YearNames :
                    get(inner, <<s, "_", y, ".", "epw">>) = ExpectedDest(f, s, y)
    /\ pc = "engine" => keyset(rename_plan) \subseteq Range(inputs.epw_files)

(***************************************************************************)
(* Properties of the engine parameters and of the argument list.           *)
(***************************************************************************)
\* the caller passed UHI options, as an argument or in fwg_params
UhiRequested ==
    \/ has(exec_args.explicit, "fwg_uhi_options")
    \/ has(exec_args.fwg_params, "uhi_options")

IsTriple(arg) == Len(arg) = 5 /\ arg[2] = ":" /\ arg[4] = ":"

\* the fifteen arguments before the UHI triple
FixedOrder ==
    /\ Len(command) >= 15
    /\ command[1] = <<"java">> /\ command[2] = <<"-cp">>
    /\ command[3] = <<"fwg", ".", "jar">>
    /\ command[4] = <<"futureweathergenerator.Morph">>
    /\ command[5] = <<"/", "cwd", "/">> \o cur
    /\ command[7] \in {<<"0">>, <<"1">>}
    /\ command[8] = <<"0.0", ":", "0.0">>
    /\ command[9] \in {<<"24">>, <<"48">>, <<"72">>}
    /\ command[10] = <<"/", "cwd", "/", "tmp", "/">> \o BaseName(cur) \o <<"/">>
    /\ command[11] \in {<<"true">>, <<"false">>}
    /\ command[12] = <<"0">>
    /\ command[13] = <<"true">>
    /\ command[14] = <<"1">> /\ command[15] = <<"1">>

\* C25 as stated: the arguments have a fixed order, the output directory
\* ends with the separator, and the UHI triple is the last argument when
\* the caller asked for it and is left out otherwise.
C25_UhiTripleOnlyOnRequest ==
    pc = "engine" =>
        /\ FixedOrder
        /\ IF UhiRequested
           THEN Len(command) = 16 /\ IsTriple(command[16])
           ELSE Len(command) = 15

\* C25, amended: the arguments have a fixed order, the output directory
\* ends with the separator, and the UHI triple is always the sixteenth and
\* last argument, whether or not the caller passed one; it is the value of
\* fwg_uhi_options when the caller passes that argument.
C25_UhiTripleAlwaysLast ==
    pc = "engine" =>
        /\ FixedOrder
        /\ Len(command) = 16
        /\ IsTriple(command[16])
        /\ has(exec_args.explicit, "fwg_uhi_options") =>
              command[16] = get(exec_args.explicit, "fwg_uhi_options")

\* an engine run of a call that passed no UHI options at all
C25_Witness ==
    /\ pc = "engine"
    /\ ~UhiRequested
    /\ command[Len(command)] = <<"1", ":", "14", ":", "1">>

\* the explicit argument that sets an engine parameter
ArgOf(k) ==
    CASE k = "gcms" -> "fwg_gcms"
      [] k = "create_ensemble" -> "fwg_create_ensemble"
      [] k = "winter_sd_shift" -> "fwg_winter_sd_shift"
      [] k = "summer_sd_shift" -> "fwg_summer_sd_shift"
      [] k = "month_transition_hours" -> "fwg_month_transition_hours"
      [] k = "use_multithreading" -> "fwg_use_multithreading"
      [] k = "interpolation_method_id" -> "fwg_interpolation_method_id"
      [] k = "limit_variables" -> "fwg_limit_variables"
      [] k = "solar_hour_adjustment" -> "fwg_solar_hour_adjustment"
      [] k = "diffuse_irradiation_model" -> "fwg_diffuse_irradiation_model"
      [] k = "uhi_options" -> "fwg_uhi_options"

EngineParameters ==
    {"gcms", "create_ensemble", "winter_sd_shift", "summer_sd_shift",
     "month_transition_hours", "use_multithreading", "interpolation_method_id",
     "limit_variables", "solar_hour_adjustment", "diffuse_irradiation_model",
     "uhi_options"}

\* the value the claim expects for a parameter
ExpectedParam(k) ==
    IF has(exec_args.explicit, ArgOf(k)) THEN get(exec_args.explicit, ArgOf(k))
    ELSE IF has(exec_args.fwg_params, k)
         THEN get(exec_args.fwg_params, k)
    ELSE get(overrides(EmptyDict), k)

\* C30 as stated: the engine runs with the explicit argument when the
\* caller passes one, otherwise with the value of fwg_params, and only
\* otherwise with the default.
C30_ExplicitThenBaseThenDefault ==
    pc = "engine" =>
        /\ \A k \in EngineParameters : dict_get(inputs.fwg_params, k) = ExpectedParam(k)
        /\ command[9] = ExpectedParam("month_transition_hours")

(***************************************************************************)
(* Properties of check_lcz_availability.                                   *)
(***************************************************************************)
\* the whole output of the tool
LczOutput == lcz_call.process.stdout \o lcz_call.process.stderr

\* the lines after the first marker line that name an LCZ
ListedLines ==
    {i \in DOMAIN LczOutput :
        /\ \E m \in 1..(i - 1) :
              \E j \in DOMAIN LczOutput[m] : LczOutput[m][j] = "The LCZs available are:"
        /\ \E j \in 1..(Len(LczOutput[i]) - 2) :
              /\ LczOutput[i][j] = "LCZ" /\ LczOutput[i][j + 1] = " "
              /\ LczOutput[i][j + 2] \in {"2", "3", "14"}}

NumberOf(line) ==
    IF \E j \in DOMAIN line : line[j] = "LCZ" /\ line[j + 2] = "2" THEN 2
    ELSE IF \E j \in DOMAIN line : line[j] = "LCZ" /\ line[j + 2] = "3" THEN 3
    ELSE 14

\* a line without the blanks at its ends
Trim(line) ==
    LET inked == {j \in DOMAIN line : line[j] # " "}
    IN  SubSeq(line, CHOOSE j \in inked : \A n \in inked : j <= n,
                     CHOOSE j \in inked : \A n \in inked : j >= n)

ListedNumbers == {NumberOf(LczOutput[i]) : i \in ListedLines}

\* the tool was started and ended without error
EngineSucceeded ==
    /\ lcz_call.original_lcz \in 1..17
    /\ lcz_call.target_lcz \in 1..17
    /\ lcz_call.process.kind = "ok"

EngineFailedWithList ==
    /\ lcz_call.original_lcz \in 1..17
    /\ lcz_call.target_lcz \in 1..17
    /\ lcz_call.process.kind = "CalledProcessError"
    /\ ListedLines # {}

\* C26: check_lcz_availability returns True exactly when the tool succeeds;
\* when the tool fails and lists the available LCZs after the marker line,
\* it returns the listed lines and one message for each requested LCZ that
\* is not listed, a single message when original and target are the same
\* LCZ; for every other failure it returns False; it never raises.
C26_LczDiagnosis ==
    lcz_call.called =>
        LET r == lcz_call.result
            named == {<<r.invalid_messages[i].which, r.invalid_messages[i].lcz>> :
                         i \in DOMAIN r.invalid_messages}
            o == lcz_call.original_lcz
            t == lcz_call.target_lcz
        IN  /\ r.raised = "none"
            /\ r.returns = "True" <=> EngineSucceeded
            /\ r.returns = "dict" <=> EngineFailedWithList
            /\ r.returns \in {"True", "False", "dict"}
            /\ r.returns = "dict" =>
                  /\ Len(r.available) = Cardinality(ListedLines)
                  /\ \A i \in ListedLines :
                        r.available[Cardinality({m \in ListedLines : m <= i})]
                            = Trim(LczOutput[i])
                  /\ Cardinality(named) = Len(r.invalid_messages)
                  /\ IF o = t
                     THEN named = IF o \in ListedNumbers THEN {} ELSE {<<"specified", o>>}
                     ELSE named = {<<"original", o>> : x \in {o} \ ListedNumbers}
                                  \cup {<<"target", t>> : x \in {t} \ ListedNumbers}

\* a failure that lists LCZ 2 and LCZ 14 after an error line that names
\* LCZ 3, for a call that asks for 3 and 14
C26_Witness ==
    /\ lcz_call.called
    /\ lcz_call.original_lcz = 3 /\ lcz_call.target_lcz = 14
    /\ lcz_call.process.kind = "CalledProcessError"
    /\ ListedNumbers = {2, 14}
    /\ lcz_call.result.returns = "dict"
    /\ lcz_call.result.invalid_messages = <<[which |-> "original", lcz |-> 3]>>

(***************************************************************************)
(* Properties of the batch iterator.                                       *)
(***************************************************************************)
\* the rows of the last generate_morphing_workflows whose own mapping and
\* configuration raise nothing
Preparable ==
    {i \in DOMAIN iter_args.runs_df :
        /\ ~(iter_args.runs_df[i].keyword_mapping = NoMapping
             /\ iter_args.keyword_mapping = NoMapping)
        /\ iter_args.runs_df[i].configure # "raises"}

PreparedRuns == {prepared_workflows[i].run : i \in DOMAIN prepared_workflows}

Attempts == [i \in DOMAIN iter_log |-> iter_log[i].run]

\* C27 as stated: an exception in the mapping or the configuration of one
\* run keeps no other run from being prepared and attempted; the runs are
\* attempted in order, each at most once, a run with an invalid
\* configuration is never executed and a failed run is followed by the
\* next one; without prepared workflows run_morphing_workflows raises
\* RuntimeError and executes nothing.
C27_RunsAreIsolated ==
    /\ iter_args.called => PreparedRuns = Preparable
    /\ \A i, j \in DOMAIN prepared_workflows :
          i < j => prepared_workflows[i].run < prepared_workflows[j].run
    /\ iter_pc = "running" =>
          /\ Attempts \o [i \in DOMAIN iter_todo |-> iter_todo[i].run]
                = [i \in DOMAIN prepared_workflows |-> prepared_workflows[i].run]
          /\ \A i \in DOMAIN iter_log :
                iter_log[i].ev \in {"executed", "failed"} =>
                    iter_args.runs_df[iter_log[i].run].configure = "valid"
    /\ iter_raised = "RuntimeError" => prepared_workflows = <<>> /\ iter_pc = "idle"

====
